---------------------------- MODULE Spec2Model ----------------------------
(***************************************************************************)
(* A model of the matching / scoring engine of a-match-agent               *)
(* (src/backend/skill_matcher.py, with the catalog access of               *)
(* src/backend/data_manager.py and the settings of src/config/config.py).  *)
(*                                                                         *)
(* Representation.                                                         *)
(*  - A Python dict that the code iterates (a position's required_skills   *)
(*    and preferred_skills, missing_skills) is a sequence of               *)
(*    [skill, level] entries with distinct skills, in insertion order:     *)
(*    Python dicts iterate in insertion order.                             *)
(*  - employee.skills is only ever read with .get(skill, 0) and            *)
(*    `skill in`, never iterated, so it is a function from its key set to  *)
(*    levels.                                                              *)
(*  - A match score is a Python float.  The model keeps it as the exact    *)
(*    fraction [num, den] (den > 0) of the real-number value of the        *)
(*    expression the code evaluates; comparisons are done by cross         *)
(*    multiplication.  Rounding of IEEE doubles is not modelled: where     *)
(*    the exact value is 0.8 or 0.9 and a bonus was added, the double can  *)
(*    be one unit in the last place below it (2/3 + (2/3) * 0.2 is         *)
(*    0.7999999999999999), so the code can pick the lower tier text, or    *)
(*    order two such positions, where the model sees a tie.                *)
(*  - A recommendation string is the sequence of the pieces the code       *)
(*    concatenates.                                                        *)
(***************************************************************************)
EXTENDS Integers, Sequences, FiniteSets, TLC

VARIABLES
    pc,                 \* "start" before the call, "done" after it returned
    employee_skills,    \* employee.skills
    required_skills,    \* position.required_skills of the one position given
    preferred_skills,   \* position.preferred_skills of the one position given
    in_score,           \* the match_score handed to the recommendation text
    open_positions,     \* positions.json: "open_positions", in file order
    current_positions,  \* positions.json: "current_positions", in file order
    include_current,    \* the include_current argument
    top_n,              \* Config.RECOMMENDATION_COUNT
    gaps,               \* returned by calculate_skill_gap
    match_score,        \* returned by calculate_position_match_score
    matches,            \* returned by find_position_matches
    recommendation,     \* returned by _generate_position_recommendation
    target,             \* the target_position_id or target_role argument
    report,             \* returned by analyze_career_progression
    suggestions,        \* returned by get_career_path_suggestions
    include_external,   \* the include_external argument
    use_gpt,            \* Config.USE_GPT_RESOURCE_GENERATION
    configured,         \* AZURE_OPENAI_ENDPOINT and AZURE_OPENAI_API_KEY are set
    max_resources,      \* the max_resources argument
    gen_pc,             \* where generate_learning_resources stands
    attempt,            \* the loop variable of _generate_chat_response
    chat_log,           \* the requests posted and the sleeps, in order
    response,           \* what _generate_chat_response returned or raised
    resources,          \* the list of LearningResource returned or given
    plan,               \* returned by generate_learning_plan
    estimated_duration, \* returned by _calculate_estimated_duration
    trending,           \* returned by get_trending_skills
    arg_current_level,  \* the current_level argument
    arg_target_level,   \* the target_level argument
    calls,              \* the analyzer calls made so far, each with its result
    file,               \* employees.json: what a reader of the file finds
    stored,             \* the employees of employees.json before the calls
    saving              \* where each running save_employee stands

\* The variables of the learning recommender and of the resource generator.
ext == <<target, report, suggestions, include_external, use_gpt, configured,
         max_resources, gen_pc, attempt, chat_log, response, resources, plan,
         estimated_duration>>

\* The variables of get_trending_skills, of the calls made for one skill, of
\* repeated calls and of the employee store.
more == <<trending, arg_current_level, arg_target_level, calls, file,
          stored, saving>>

vars == <<pc, employee_skills, required_skills, preferred_skills, in_score,
          open_positions, current_positions, include_current, top_n,
          gaps, match_score, matches, recommendation, ext, more>>

-----------------------------------------------------------------------------
(* Bounds and program constants *)

\* The highest skill level (Config.SKILL_LEVELS, "1-5 scale").
MaxLevel == 5

\* The largest number of entries of a required_skills dict drawn as input.
MaxSkills == 3

\* The largest number of entries of a preferred_skills dict drawn as input.
MaxPreferred == 1

\* The largest numbers of open and of current positions of a catalog drawn as
\* input, and the largest RECOMMENDATION_COUNT drawn besides its default.
MaxOpen == 2
MaxCurrent == 1
MaxTopN == 2

\* Config.RECOMMENDATION_COUNT when the environment does not set it.
RECOMMENDATION_COUNT_DEFAULT == 5

\* The recommendation text is applied to scores k / ScoreGrid and to required
\* maps of at most MaxRecSkills entries.
ScoreGrid == 20
MaxRecSkills == 4

Skills == {"python", "sql", "java"}

\* The inputs of the recommendation text: four skills, so that four gaps can
\* be of high priority and four skills missing at once.
RecSkills == {"python", "sql", "java", "aws"}
RecRequiredLevels == {2, MaxLevel}
RecEmployeeLevels == {2}

\* The skills of the inputs of the scoring function.
ScoreSkills == {"python", "sql"}

Min2(a, b) == IF a <= b THEN a ELSE b

-----------------------------------------------------------------------------
(* Python dicts *)

\* All insertion-ordered dicts with at most n entries, keys in S, values in L.
SkillMaps(S, L, n) ==
    UNION { { d \in [1..k -> [skill : S, level : L]] :
                \A i, j \in 1..k : i # j => d[i].skill # d[j].skill }
            : k \in 0..n }

\* All employee.skills maps with keys in S and values in L.
EmployeeMaps(S, L) == UNION { [D -> L] : D \in SUBSET S }

\* One entry of a dict
Entry(skill, level) == [skill |-> skill, level |-> level]

\* dict.keys() as a set
Keys(d) == { d[i].skill : i \in DOMAIN d }

\* current_skills.get(skill, 0)
Get(current, skill) == IF skill \in DOMAIN current THEN current[skill] ELSE 0

\* None, as a record so that it compares with the records the code returns.
None == [none |-> TRUE]

\* list.sort(key=..., reverse=True) on a list of n elements: the places of
\* the elements in the sorted order, descending by key, and stable (elements
\* with equal keys keep their order).  less[i][j] is key(i-th) < key(j-th).
InsertDesc(sorted, x, less) ==
    LET before == { i \in 1..Len(sorted) : less[sorted[i]][x] }
        p == IF before = {} THEN Len(sorted) + 1
             ELSE CHOOSE i \in before : \A j \in before : i <= j
    IN  SubSeq(sorted, 1, p - 1) \o <<x>> \o SubSeq(sorted, p, Len(sorted))

SortReverse(n, less) ==
    LET f[k \in 0..n] == IF k = 0 THEN <<>> ELSE InsertDesc(f[k - 1], k, less)
    IN  f[n]

-----------------------------------------------------------------------------
(* SkillMatcher.calculate_skill_gap *)

PriorityTooHigh(gap) ==
    IF gap > 3 THEN "high" ELSE IF gap >= 2 THEN "medium" ELSE "low"

\* skill_matcher.py:25-30
Priority(gap) ==
    IF gap >= 3 THEN "high" ELSE IF gap >= 2 THEN "medium" ELSE "low"

\* skill_matcher.py:41
priority_order(p) ==
    CASE p = "high" -> 3 [] p = "medium" -> 2 [] p = "low" -> 1

\* One iteration of the loop, skill_matcher.py:20-21 and 32-38.
SkillGapOf(current, item) ==
    LET current_level == Get(current, item.skill)
        gap == item.level - current_level
    IN  [skill_name |-> item.skill,
         current_level |-> current_level,
         required_level |-> item.level,
         gap |-> gap,
         priority |-> Priority(gap)]

KeepNonNegative(g) == g.gap >= 0

\* skill_matcher.py:23
KeepGap(g) == g.gap > 0

\* The loop of skill_matcher.py:19-38: the gaps in the order of required.
CollectGaps(current, required) ==
    SelectSeq([i \in DOMAIN required |-> SkillGapOf(current, required[i])],
              KeepGap)

GapKeyLessAscending(a, b) ==
    \/ a.gap > b.gap
    \/ a.gap = b.gap /\ priority_order(a.priority) > priority_order(b.priority)

\* key(a) < key(b) for the key (x.gap, priority_order[x.priority]).
GapKeyLess(a, b) ==
    \/ a.gap < b.gap
    \/ a.gap = b.gap /\ priority_order(a.priority) < priority_order(b.priority)

\* gaps.sort(key=lambda x: (x.gap, priority_order[x.priority]), reverse=True)
SortGaps(found) ==
    LET less == [i \in DOMAIN found |->
                    [j \in DOMAIN found |-> GapKeyLess(found[i], found[j])]]
        order == SortReverse(Len(found), less)
    IN  [k \in DOMAIN order |-> found[order[k]]]

calculate_skill_gap(current, required) ==
    SortGaps(CollectGaps(current, required))

-----------------------------------------------------------------------------
(* Scores: exact fractions [num, den] with den > 0 *)

Zero == [num |-> 0, den |-> 1]
One == [num |-> 1, den |-> 1]

ScoreLess(a, b) == a.num * b.den < b.num * a.den
ScoreEq(a, b) == a.num * b.den = b.num * a.den
ScoreGeq(a, b) == a.num * b.den >= b.num * a.den

-----------------------------------------------------------------------------
(* SkillMatcher.calculate_position_match_score *)

CreditAllOrNothing(current_level, wanted_level) ==
    IF current_level >= wanted_level THEN wanted_level ELSE 0

CreditOnlyExact(current_level, wanted_level) ==
    IF current_level > wanted_level THEN 0 ELSE current_level

CreditInFull(current_level, wanted_level) == wanted_level

\* skill_matcher.py:60-65 (and 75-78 for preferred skills): full points if
\* the level is met, else the current level.
Credit(current_level, wanted_level) ==
    IF current_level >= wanted_level THEN wanted_level ELSE current_level

\* total_score (and twice bonus_score) after the loop over the dict d.
SumCredit(employee, d) ==
    LET f[k \in 0..Len(d)] ==
            IF k = 0 THEN 0
            ELSE f[k - 1] + Credit(Get(employee, d[k].skill), d[k].level)
    IN  f[Len(d)]

\* max_possible_score (and twice max_bonus) after the loop over the dict d.
SumLevels(d) ==
    LET f[k \in 0..Len(d)] == IF k = 0 THEN 0 ELSE f[k - 1] + d[k].level
    IN  f[Len(d)]

NoClamp(final_score) == final_score

\* min(final_score, 1.0)
Clamp(final_score) ==
    IF final_score.num > final_score.den THEN One ELSE final_score

\* The code adds preferred_level * 0.5 per preferred skill to max_bonus and
\* to bonus_score; bonus2 and max_bonus2 are twice these sums, so that
\* bonus_ratio = bonus2 / max_bonus2, and
\* final_score = total/max_possible + bonus_ratio * 0.2
\*             = (5 * total * max_bonus2 + bonus2 * max_possible)
\*               / (5 * max_possible * max_bonus2).
calculate_position_match_score(employee, position) ==
    IF position.required_skills = <<>> THEN Zero
    ELSE
        LET total_score == SumCredit(employee, position.required_skills)
            max_possible_score == SumLevels(position.required_skills)
            bonus2 == SumCredit(employee, position.preferred_skills)
            max_bonus2 == SumLevels(position.preferred_skills)
        IN  IF max_possible_score > 0
            THEN IF max_bonus2 > 0
                 THEN Clamp([num |-> 5 * total_score * max_bonus2
                                      + bonus2 * max_possible_score,
                             den |-> 5 * max_possible_score * max_bonus2])
                 ELSE [num |-> total_score, den |-> max_possible_score]
            ELSE Zero

-----------------------------------------------------------------------------
(* SkillMatcher._generate_position_recommendation *)

\* The literals 0.9, 0.8 and 0.7 of skill_matcher.py:138-142.
Tier(n) == [num |-> n, den |-> 10]

TierTextShifted(score) ==
    IF ScoreGeq(score, Tier(9)) THEN "Excellent match! You meet most requirements."
    ELSE IF ScoreGeq(score, Tier(7)) THEN "Very good match with minor skill gaps."
    ELSE IF ScoreGeq(score, Tier(7)) THEN "Good match. Some skill development needed."
    ELSE "Partial match. Significant upskilling required."

\* skill_matcher.py:138-145
TierText(score) ==
    IF ScoreGeq(score, Tier(9)) THEN "Excellent match! You meet most requirements."
    ELSE IF ScoreGeq(score, Tier(8)) THEN "Very good match with minor skill gaps."
    ELSE IF ScoreGeq(score, Tier(7)) THEN "Good match. Some skill development needed."
    ELSE "Partial match. Significant upskilling required."

\* sep.join(names): the names with sep between neighbours.
Join(sep, names) ==
    [k \in 1..(2 * Len(names) - 1) |->
        IF k % 2 = 1 THEN names[(k + 1) \div 2] ELSE sep]

\* seq[:n]
Prefix(seq, n) == SubSeq(seq, 1, Min2(n, Len(seq)))

IsHigh(gap) == gap.priority = "high"

\* skill_matcher.py:147-150
FocusClause(skill_gaps) ==
    LET high_priority_gaps == SelectSeq(skill_gaps, IsHigh)
        shown == Prefix(high_priority_gaps, 3)
    IN  IF skill_gaps # <<>> /\ high_priority_gaps # <<>>
        THEN <<" Focus on developing: ">>
             \o Join(", ", [k \in DOMAIN shown |-> shown[k].skill_name])
             \o <<".">>
        ELSE <<>>

\* skill_matcher.py:152-157
MissingClause(missing_skills) ==
    LET missing_count == Len(missing_skills)
    IN  IF missing_skills = <<>> THEN <<>>
        ELSE IF missing_count <= 2
        THEN <<" Consider learning: ">>
             \o Join(", ", [k \in DOMAIN missing_skills |-> missing_skills[k].skill])
             \o <<".">>
        ELSE <<" ", ToString(missing_count), " new skills needed for this role.">>

generate_position_recommendation(score, skill_gaps, missing_skills) ==
    <<TierText(score)>> \o FocusClause(skill_gaps) \o MissingClause(missing_skills)

-----------------------------------------------------------------------------
(* SkillMatcher.find_position_matches *)

\* Config.SKILL_MATCH_THRESHOLD when the environment does not set it: 0.7.
SKILL_MATCH_THRESHOLD == [num |-> 7, den |-> 10]

\* skill_matcher.py:96-103: the open positions, then (extend) the current ones.
PositionsToCheck(open, current, with_current) ==
    IF with_current THEN open \o current ELSE open

MissingEverythingUnmet(employee, required) ==
    LET Unmet(item) == Get(employee, item.skill) = 0
    IN  SelectSeq(required, Unmet)

\* skill_matcher.py:113-116
MissingSkills(employee, required) ==
    LET Absent(item) == item.skill \notin DOMAIN employee
    IN  SelectSeq(required, Absent)

\* skill_matcher.py:106-127: the PositionMatch of one kept position.
MatchOf(employee, position) ==
    LET score == calculate_position_match_score(employee, position)
        skill_gaps == calculate_skill_gap(employee, position.required_skills)
        missing_skills == MissingSkills(employee, position.required_skills)
    IN  [position |-> position,
         match_score |-> score,
         missing_skills |-> missing_skills,
         skill_gaps |-> skill_gaps,
         recommendation |->
             generate_position_recommendation(score, skill_gaps, missing_skills)]

\* skill_matcher.py:108
Kept(employee, position) ==
    ScoreGeq(calculate_position_match_score(employee, position),
             SKILL_MATCH_THRESHOLD)

\* The loop of skill_matcher.py:105-127.
CollectMatches(employee, positions) ==
    LET IsKept(position) == Kept(employee, position)
        kept == SelectSeq(positions, IsKept)
    IN  [k \in DOMAIN kept |-> MatchOf(employee, kept[k])]

MatchKeyLessAscending(a, b) == ScoreLess(b.match_score, a.match_score)

\* key(a) < key(b) for the key x.match_score, skill_matcher.py:130.
MatchKeyLess(a, b) == ScoreLess(a.match_score, b.match_score)

TruncateOneMore(sorted, n) == Prefix(sorted, n + 1)

\* matches[:self.config.RECOMMENDATION_COUNT], skill_matcher.py:132
Truncate(sorted, n) == Prefix(sorted, n)

\* Sorting by match_score alone, descending, but putting equal scores in
\* reverse order of examination.
SortMatchesUnstable(found) ==
    LET leq == [i \in DOMAIN found |->
                   [j \in DOMAIN found |-> ~MatchKeyLess(found[j], found[i])]]
        order == SortReverse(Len(found), leq)
    IN  [k \in DOMAIN order |-> found[order[k]]]

\* matches.sort(key=lambda x: x.match_score, reverse=True)
SortMatches(found) ==
    LET less == [i \in DOMAIN found |->
                    [j \in DOMAIN found |-> MatchKeyLess(found[i], found[j])]]
        order == SortReverse(Len(found), less)
    IN  [k \in DOMAIN order |-> found[order[k]]]

find_position_matches(employee, open, current, with_current, count) ==
    Truncate(SortMatches(CollectMatches(employee,
                 PositionsToCheck(open, current, with_current))), count)

-----------------------------------------------------------------------------
(* DataManager.get_position_by_id *)

\* data_manager.py:96-111: the current positions are searched first, then
\* the open ones; each loop returns the first position of its list with this
\* id.
get_position_by_id(current, open, position_id) ==
    LET FirstWithId(positions) ==
            LET hits == { i \in DOMAIN positions :
                            positions[i].id = position_id }
            IN  IF hits = {} THEN None
                ELSE positions[CHOOSE i \in hits : \A j \in hits : i <= j]
    IN  IF FirstWithId(current) # None
        THEN FirstWithId(current)
        ELSE FirstWithId(open)

-----------------------------------------------------------------------------
(* SkillMatcher.analyze_career_progression *)

\* total_months after the loop of skill_matcher.py:175-178, doubled: each gap
\* adds gap * 1.5, a multiple of one half, which a double holds exactly.
TotalMonthsDoubled(skill_gaps) ==
    LET f[k \in 0..Len(skill_gaps)] ==
            IF k = 0 THEN 0 ELSE f[k - 1] + 3 * skill_gaps[k].gap
    IN  f[Len(skill_gaps)]

IntRoundedUp(doubled) == (doubled + 1) \div 2

\* int(total_months) for total_months = doubled / 2 >= 0: int() drops the
\* fraction.
IntOfHalves(doubled) == doubled \div 2

\* skill_matcher.py:181-189
ProgressionRecommendations(skill_gaps) ==
    LET high_priority == SelectSeq(skill_gaps, IsHigh)
        medium_priority ==
            SelectSeq(skill_gaps, LAMBDA gap : gap.priority = "medium")
        GapNames(listed) == [k \in DOMAIN listed |-> listed[k].skill_name]
    IN  (IF high_priority # <<>>
         THEN << <<"Immediately focus on: ">>
                 \o Join(", ", GapNames(Prefix(high_priority, 3))) >>
         ELSE <<>>)
        \o
        (IF medium_priority # <<>>
         THEN << <<"Next, develop: ">>
                 \o Join(", ", GapNames(Prefix(medium_priority, 3))) >>
         ELSE <<>>)

\* skill_matcher.py:200-210
get_next_steps(priority_gaps) ==
    [k \in DOMAIN priority_gaps |->
        LET gap == priority_gaps[k]
        IN  IF gap.current_level = 0
            THEN <<"Start learning ", gap.skill_name, " basics">>
            ELSE <<"Advance ", gap.skill_name, " from level ",
                   ToString(gap.current_level), " to ",
                   ToString(gap.required_level)>>]

\* skill_matcher.py:161-198
analyze_career_progression(employee, target_position_id, current, open) ==
    LET target_position == get_position_by_id(current, open, target_position_id)
    IN  IF target_position = None THEN None
        ELSE
          LET skill_gaps == calculate_skill_gap(employee,
                                                target_position.required_skills)
          IN  [target_position |-> target_position,
               current_match_score |->
                   calculate_position_match_score(employee, target_position),
               skill_gaps |-> skill_gaps,
               estimated_development_time |->
                   <<ToString(IntOfHalves(TotalMonthsDoubled(skill_gaps))),
                     " months">>,
               recommendations |-> ProgressionRecommendations(skill_gaps),
               next_steps |-> get_next_steps(Prefix(skill_gaps, 3))]

-----------------------------------------------------------------------------
(* LearningRecommender.get_career_path_suggestions *)

\* The integer nearest to num / den (num >= 0, den > 0), a half going to the
\* even neighbour.
RoundHalfEven(num, den) ==
    LET q == num \div den
        r == num % den
    IN  IF 2 * r < den THEN q
        ELSE IF 2 * r > den THEN q + 1
        ELSE IF q % 2 = 0 THEN q ELSE q + 1

\* round(match_score, 2), in hundredths.  round() rounds the double
\* correctly; the model rounds the exact fraction, and the two agree unless
\* the fraction lies exactly between two hundredths without being a double
\* (an odd multiple of 1/200 whose denominator is not a power of two).
Round2(score) == [num |-> RoundHalfEven(100 * score.num, score.den), den |-> 100]

DifficultyShifted(score) ==
    IF ScoreGeq(score, Tier(7)) THEN "easy"
    ELSE IF ScoreGeq(score, Tier(6)) THEN "medium"
    ELSE "hard"

\* learning_recommender.py:302
Difficulty(score) ==
    IF ScoreGeq(score, Tier(8)) THEN "easy"
    ELSE IF ScoreGeq(score, Tier(6)) THEN "medium"
    ELSE "hard"

\* learning_recommender.py:290-303: the suggestion appended for a position.
SuggestionOf(employee, position) ==
    LET score == calculate_position_match_score(employee, position)
        skill_gaps == calculate_skill_gap(employee, position.required_skills)
        development_time == Len(skill_gaps) * 2
    IN  [position |-> position.title,
         department |-> position.department,
         match_score |-> Round2(score),
         skill_gaps_count |-> Len(skill_gaps),
         estimated_development |-> <<ToString(development_time), " months">>,
         difficulty |-> Difficulty(score)]

\* The loop of learning_recommender.py:289-303, with the test
\* match_score >= 0.5 of line 292.
CollectSuggestions(employee, all_positions) ==
    LET Suggested(position) ==
            ScoreGeq(calculate_position_match_score(employee, position),
                     [num |-> 1, den |-> 2])
        f[k \in 0..Len(all_positions)] ==
            IF k = 0 THEN <<>>
            ELSE IF Suggested(all_positions[k])
                 THEN Append(f[k - 1], SuggestionOf(employee, all_positions[k]))
                 ELSE f[k - 1]
    IN  f[Len(all_positions)]

\* suggestions.sort(key=lambda x: x["match_score"], reverse=True)
SortSuggestions(found) ==
    LET less == [i \in DOMAIN found |->
                    [j \in DOMAIN found |->
                        ScoreLess(found[i].match_score, found[j].match_score)]]
        order == SortReverse(Len(found), less)
    IN  [k \in DOMAIN order |-> found[order[k]]]

\* learning_recommender.py:281-308
get_career_path_suggestions(employee, open, current) ==
    LET all_positions == open \o current
    IN  Prefix(SortSuggestions(CollectSuggestions(employee, all_positions)), 5)

-----------------------------------------------------------------------------
(* Python str: a string whose characters the code looks at is the sequence
   of its characters *)

\* c.lower() for one character
LowerChar(c) ==
    LET upper_case ==
            <<"A", "B", "C", "D", "E", "F", "G", "H", "I", "J", "K", "L", "M",
              "N", "O", "P", "Q", "R", "S", "T", "U", "V", "W", "X", "Y", "Z">>
        lower_case ==
            <<"a", "b", "c", "d", "e", "f", "g", "h", "i", "j", "k", "l", "m",
              "n", "o", "p", "q", "r", "s", "t", "u", "v", "w", "x", "y", "z">>
    IN  IF \E i \in DOMAIN upper_case : upper_case[i] = c
        THEN lower_case[CHOOSE i \in DOMAIN upper_case : upper_case[i] = c]
        ELSE c

\* s.lower()
Lower(s) == [i \in DOMAIN s |-> LowerChar(s[i])]

\* s.replace(old, new) for one-character old and new
ReplaceChar(s, old, new) == [i \in DOMAIN s |-> IF s[i] = old THEN new ELSE s[i]]

\* sub in s
Contains(sub, s) ==
    \E i \in 0..(Len(s) - Len(sub)) : SubSeq(s, i + 1, i + Len(sub)) = sub

\* The role names, position titles and position identifiers of the inputs:
\* "Data Analyst", "Software Developer and Data Analyst", "Senior Data Scientist", "Machine Learning Engineer",
\* "machine learning expert", "Python Guru", "React and SQL specialist", "project_management", "Chef",
\* "DATA ANALYST", "Cook", "P1", "p1", "p2", "chef".
RoleTexts ==
    [data_analyst |->
        <<"D", "a", "t", "a", " ", "A", "n", "a", "l", "y", "s", "t">>,
     two_roles |->
        <<"S", "o", "f", "t", "w", "a", "r", "e", " ", "D", "e", "v", "e",
          "l", "o", "p", "e", "r", " ", "a", "n", "d", " ", "D", "a", "t",
          "a", " ", "A", "n", "a", "l", "y", "s", "t">>,
     data_scientist |->
        <<"S", "e", "n", "i", "o", "r", " ", "D", "a", "t", "a", " ", "S",
          "c", "i", "e", "n", "t", "i", "s", "t">>,
     ml_engineer |->
        <<"M", "a", "c", "h", "i", "n", "e", " ", "L", "e", "a", "r", "n",
          "i", "n", "g", " ", "E", "n", "g", "i", "n", "e", "e", "r">>,
     ml_expert |->
        <<"m", "a", "c", "h", "i", "n", "e", " ", "l", "e", "a", "r", "n",
          "i", "n", "g", " ", "e", "x", "p", "e", "r", "t">>,
     python_guru |->
        <<"P", "y", "t", "h", "o", "n", " ", "G", "u", "r", "u">>,
     react_sql |->
        <<"R", "e", "a", "c", "t", " ", "a", "n", "d", " ", "S", "Q", "L",
          " ", "s", "p", "e", "c", "i", "a", "l", "i", "s", "t">>,
     underscore |->
        <<"p", "r", "o", "j", "e", "c", "t", "_", "m", "a", "n", "a", "g",
          "e", "m", "e", "n", "t">>,
     chef |->
        <<"C", "h", "e", "f">>,
     upper_data_analyst |->
        <<"D", "A", "T", "A", " ", "A", "N", "A", "L", "Y", "S", "T">>,
     cook |->
        <<"C", "o", "o", "k">>,
     id_P1 |->
        <<"P", "1">>,
     id_p1 |->
        <<"p", "1">>,
     id_p2 |->
        <<"p", "2">>,
     lower_chef |->
        <<"c", "h", "e", "f">>]

\* The durations of the resource templates ("6-8 weeks", "3 months",
\* "Variable", "4-6 weeks", "8 weeks") and seven more ("2 hours",
\* "Self-paced weeks", "1 Month", "10 HOURS per week", "a few hours",
\* "Several months", "1 month, 2 hours weekly").
DurationTexts ==
    [six_to_eight_weeks |->
        <<"6", "-", "8", " ", "w", "e", "e", "k", "s">>,
     three_months |->
        <<"3", " ", "m", "o", "n", "t", "h", "s">>,
     variable |->
        <<"V", "a", "r", "i", "a", "b", "l", "e">>,
     four_to_six_weeks |->
        <<"4", "-", "6", " ", "w", "e", "e", "k", "s">>,
     eight_weeks |->
        <<"8", " ", "w", "e", "e", "k", "s">>,
     two_hours |->
        <<"2", " ", "h", "o", "u", "r", "s">>,
     self_paced_weeks |->
        <<"S", "e", "l", "f", "-", "p", "a", "c", "e", "d", " ", "w", "e",
          "e", "k", "s">>,
     one_month |->
        <<"1", " ", "M", "o", "n", "t", "h">>,
     ten_hours_per_week |->
        <<"1", "0", " ", "H", "O", "U", "R", "S", " ", "p", "e", "r", " ",
          "w", "e", "e", "k">>,
     few_hours |->
        <<"a", " ", "f", "e", "w", " ", "h", "o", "u", "r", "s">>,
     several_months |->
        <<"S", "e", "v", "e", "r", "a", "l", " ", "m", "o", "n", "t", "h",
          "s">>,
     month_and_hours |->
        <<"1", " ", "m", "o", "n", "t", "h", ",", " ", "2", " ", "h", "o",
          "u", "r", "s", " ", "w", "e", "e", "k", "l", "y">>]

\* The characters of the skill names that the code searches for in a role
\* name.
Chars(skill) ==
    LET spelling ==
        [python |-> <<"p", "y", "t", "h", "o", "n">>,
         javascript |-> <<"j", "a", "v", "a", "s", "c", "r", "i", "p", "t">>,
         sql |-> <<"s", "q", "l">>,
         machine_learning |-> <<"m", "a", "c", "h", "i", "n", "e", "_", "l", "e",
                                "a", "r", "n", "i", "n", "g">>,
         data_analysis |-> <<"d", "a", "t", "a", "_", "a", "n", "a", "l", "y",
                             "s", "i", "s">>,
         project_management |-> <<"p", "r", "o", "j", "e", "c", "t", "_", "m",
                                  "a", "n", "a", "g", "e", "m", "e", "n", "t">>,
         leadership |-> <<"l", "e", "a", "d", "e", "r", "s", "h", "i", "p">>,
         communication |-> <<"c", "o", "m", "m", "u", "n", "i", "c", "a", "t",
                             "i", "o", "n">>,
         agile |-> <<"a", "g", "i", "l", "e">>,
         react |-> <<"r", "e", "a", "c", "t">>,
         nodejs |-> <<"n", "o", "d", "e", "j", "s">>]
    IN  spelling[skill]

-----------------------------------------------------------------------------
(* LearningRecommender._infer_skills_from_role_name *)

\* learning_recommender.py:78-88, in the order of the dict
role_skill_mapping ==
    <<[role_key |-> <<"d", "a", "t", "a", " ", "a", "n", "a", "l", "y", "s",
                      "t">>,
       skills |-> <<"python", "sql", "data_analysis", "statistics">>],
      [role_key |-> <<"s", "o", "f", "t", "w", "a", "r", "e", " ", "d", "e",
                      "v", "e", "l", "o", "p", "e", "r">>,
       skills |-> <<"python", "javascript", "sql", "problem_solving">>],
      [role_key |-> <<"p", "r", "o", "j", "e", "c", "t", " ", "m", "a", "n",
                      "a", "g", "e", "r">>,
       skills |-> <<"project_management", "leadership", "communication", "agile">>],
      [role_key |-> <<"m", "a", "c", "h", "i", "n", "e", " ", "l", "e", "a",
                      "r", "n", "i", "n", "g", " ", "e", "n", "g", "i", "n",
                      "e", "e", "r">>,
       skills |-> <<"python", "machine_learning", "statistics", "data_analysis">>],
      [role_key |-> <<"f", "u", "l", "l", " ", "s", "t", "a", "c", "k", " ",
                      "d", "e", "v", "e", "l", "o", "p", "e", "r">>,
       skills |-> <<"javascript", "react", "nodejs", "sql">>],
      [role_key |-> <<"p", "r", "o", "d", "u", "c", "t", " ", "m", "a", "n",
                      "a", "g", "e", "r">>,
       skills |-> <<"business_analysis", "project_management", "communication", "agile">>],
      [role_key |-> <<"d", "a", "t", "a", " ", "s", "c", "i", "e", "n", "t",
                      "i", "s", "t">>,
       skills |-> <<"python", "machine_learning", "statistics", "data_analysis">>],
      [role_key |-> <<"f", "r", "o", "n", "t", "e", "n", "d", " ", "d", "e",
                      "v", "e", "l", "o", "p", "e", "r">>,
       skills |-> <<"javascript", "react", "web_development">>],
      [role_key |-> <<"b", "a", "c", "k", "e", "n", "d", " ", "d", "e", "v",
                      "e", "l", "o", "p", "e", "r">>,
       skills |-> <<"python", "nodejs", "sql", "web_development">>]>>

\* learning_recommender.py:99-103, in the order of the dict
skill_keywords ==
    <<Entry("python", 3),
      Entry("javascript", 3),
      Entry("sql", 3),
      Entry("machine_learning", 4),
      Entry("data_analysis", 3),
      Entry("project_management", 3),
      Entry("leadership", 3),
      Entry("communication", 3),
      Entry("agile", 3),
      Entry("react", 3),
      Entry("nodejs", 3)>>

\* learning_recommender.py:94: required_skills[skill] = 3
DEFAULT_INFERRED_LEVEL == 3

FromLastRole(role_lower) ==
    LET hits == { i \in DOMAIN role_skill_mapping :
                    Contains(role_skill_mapping[i].role_key, role_lower) }
    IN  IF hits = {} THEN <<>>
        ELSE LET last == CHOOSE i \in hits : \A j \in hits : j <= i
                 skills == role_skill_mapping[last].skills
             IN  [k \in DOMAIN skills |-> Entry(skills[k], DEFAULT_INFERRED_LEVEL)]

\* The loop of learning_recommender.py:91-96: the skills of the first entry
\* whose key occurs in the role name, and the break.
FromRoleTable(role_lower) ==
    LET hits == { i \in DOMAIN role_skill_mapping :
                    Contains(role_skill_mapping[i].role_key, role_lower) }
    IN  IF hits = {} THEN <<>>
        ELSE LET first == CHOOSE i \in hits : \A j \in hits : i <= j
                 skills == role_skill_mapping[first].skills
             IN  [k \in DOMAIN skills |-> Entry(skills[k], DEFAULT_INFERRED_LEVEL)]

\* The loop of learning_recommender.py:105-107.
FromKeywords(role_lower) ==
    LET KeywordFound(item) ==
            \/ Contains(Chars(item.skill), role_lower)
            \/ Contains(ReplaceChar(Chars(item.skill), "_", " "), role_lower)
        f[k \in 0..Len(skill_keywords)] ==
            IF k = 0 THEN <<>>
            ELSE IF KeywordFound(skill_keywords[k])
                 THEN Append(f[k - 1], skill_keywords[k])
                 ELSE f[k - 1]
    IN  f[Len(skill_keywords)]

\* required_skills of learning_recommender.py:90-107
InferredRequired(role_name) ==
    LET role_lower == Lower(role_name)
    IN  IF FromRoleTable(role_lower) # <<>> THEN FromRoleTable(role_lower)
        ELSE FromKeywords(role_lower)

InferredKeyLessAscending(a, b) == a.gap > b.gap

\* key(a) < key(b) for the key x.gap
InferredKeyLess(a, b) == a.gap < b.gap

\* sorted(inferred_gaps, key=lambda x: x.gap, reverse=True)
SortInferred(found) ==
    LET less == [i \in DOMAIN found |->
                    [j \in DOMAIN found |-> InferredKeyLess(found[i], found[j])]]
        order == SortReverse(Len(found), less)
    IN  [k \in DOMAIN order |-> found[order[k]]]

\* learning_recommender.py:71-125; the loop of lines 110-122 builds a
\* SkillGap for each required skill and keeps it when
\* current_level < required_level.
infer_skills_from_role_name(role_name, current_skills) ==
    LET required == InferredRequired(role_name)
        InferredGapOf(item) ==
            LET current_level == Get(current_skills, item.skill)
                gap == item.level - current_level
            IN  [skill_name |-> item.skill,
                 current_level |-> current_level,
                 required_level |-> item.level,
                 gap |-> gap,
                 priority |-> IF gap >= 3 THEN "high"
                              ELSE IF gap >= 2 THEN "medium" ELSE "low"]
        inferred_gaps ==
            SelectSeq([i \in DOMAIN required |-> InferredGapOf(required[i])],
                      LAMBDA g : g.current_level < g.required_level)
    IN  SortInferred(inferred_gaps)

-----------------------------------------------------------------------------
(* LearningRecommender._calculate_estimated_duration *)

\* str.isdigit for one character
IsDigit(c) == c \in {"0", "1", "2", "3", "4", "5", "6", "7", "8", "9"}

\* int(digits) for a non-empty string of digits
ParseInt(digits) ==
    LET Digits == <<"0", "1", "2", "3", "4", "5", "6", "7", "8", "9">>
        DigitValue(c) == (CHOOSE i \in DOMAIN Digits : Digits[i] = c) - 1
        f[k \in 0..Len(digits)] ==
            IF k = 0 THEN 0 ELSE 10 * f[k - 1] + DigitValue(digits[k])
    IN  f[Len(digits)]

\* s.split(sep)[0]: s up to the first occurrence of sep, all of s if there
\* is none.
BeforeFirst(sep, s) ==
    LET at == { i \in 0..(Len(s) - Len(sep)) :
                  SubSeq(s, i + 1, i + Len(sep)) = sep }
    IN  IF at = {} THEN s
        ELSE SubSeq(s, 1, CHOOSE i \in at : \A j \in at : i <= j)

ParsedHoursOneDefault(duration_str, word, each, default) ==
    LET digits == SelectSeq(BeforeFirst(word, duration_str), IsDigit)
    IN  IF digits = <<>> THEN 10 ELSE ParseInt(digits) * each

\* The body of one try block of learning_recommender.py:199-216:
\* int(''.join(filter(str.isdigit, duration_str.split(word)[0]))) * each, and
\* default when int() raises ValueError, which it does on the empty string.
ParsedHours(duration_str, word, each, default) ==
    LET digits == SelectSeq(BeforeFirst(word, duration_str), IsDigit)
    IN  IF digits = <<>> THEN default ELSE ParseInt(digits) * each

\* learning_recommender.py:195-217: the hours of one resource.
HoursOf(duration) ==
    LET duration_str == Lower(duration)
        hour == <<"h", "o", "u", "r">>
        month == <<"m", "o", "n", "t", "h">>
        week == <<"w", "e", "e", "k">>
    IN  IF Contains(hour, duration_str)
        THEN ParsedHours(duration_str, hour, 1, 10)
        ELSE IF Contains(month, duration_str)
        THEN ParsedHours(duration_str, month, 40, 40)
        ELSE IF Contains(week, duration_str)
        THEN ParsedHours(duration_str, week, 10, 20)
        ELSE 10

FormatHoursInclusive(total_hours) ==
    IF total_hours <= 40 THEN <<ToString(total_hours), " hours">>
    ELSE IF total_hours <= 160
    THEN <<ToString(total_hours \div 10), " weeks">>
    ELSE <<ToString(total_hours \div 40), " months">>

\* learning_recommender.py:221-229
FormatHours(total_hours) ==
    IF total_hours < 40 THEN <<ToString(total_hours), " hours">>
    ELSE IF total_hours < 160 THEN <<ToString(total_hours \div 10), " weeks">>
    ELSE <<ToString(total_hours \div 40), " months">>

\* learning_recommender.py:190-229
calculate_estimated_duration(given) ==
    LET total_hours[k \in 0..Len(given)] ==
            IF k = 0 THEN 0
            ELSE total_hours[k - 1] + HoursOf(given[k].duration)
    IN  FormatHours(total_hours[Len(given)])

-----------------------------------------------------------------------------
(* Learning resources.  A LearningResource keeps the fields id, type,
   provider, duration, skills and level; title, url, description, rating,
   price and is_internal, which nothing in the backend reads, are left out. *)

\* seq[:n], for n of either sign
SliceTo(seq, n) ==
    IF n >= 0 THEN Prefix(seq, n)
    ELSE SubSeq(seq, 1, IF Len(seq) + n > 0 THEN Len(seq) + n ELSE 0)

\* learning_recommender.py:131-160, by skill name
BasicTemplates ==
    [python |-> [provider |-> "Online Learning", type |-> "course",
                 duration |-> DurationTexts.six_to_eight_weeks],
     javascript |-> [provider |-> "Web Development Platform", type |-> "course",
                     duration |-> DurationTexts.four_to_six_weeks],
     machine_learning |-> [provider |-> "Data Science Platform",
                           type |-> "specialization", duration |-> DurationTexts.three_months],
     project_management |-> [provider |-> "Professional Development",
                             type |-> "certification", duration |-> DurationTexts.eight_weeks]]

\* learning_recommender.py:163-185: the resource appended for the i-th gap
\* (i counted from 0).
BasicOf(gap, i) ==
    LET template == IF gap.skill_name \in DOMAIN BasicTemplates
                    THEN BasicTemplates[gap.skill_name]
                    ELSE [provider |-> "Online Platform", type |-> "course",
                          duration |-> DurationTexts.four_to_six_weeks]
    IN  [id |-> <<"basic_", ToString(i + 1)>>,
         type |-> template.type,
         provider |-> template.provider,
         duration |-> template.duration,
         skills |-> <<gap.skill_name>>,
         level |-> IF gap.current_level = 0 THEN "beginner"
                   ELSE IF gap.current_level < 3 THEN "intermediate"
                   ELSE "advanced"]

\* learning_recommender.py:127-188
generate_basic_resources(skill_gaps, limit) ==
    LET shown == SliceTo(skill_gaps, limit)
    IN  [k \in DOMAIN shown |-> BasicOf(shown[k], k - 1)]

\* gpt_resource_generator.py:266-316: the first template of each skill
FallbackTemplates ==
    [python |-> [provider |-> "Coursera", type |-> "specialization",
                 level |-> "beginner"],
     javascript |-> [provider |-> "Udemy", type |-> "course",
                     level |-> "beginner"],
     machine_learning |-> [provider |-> "Coursera", type |-> "specialization",
                           level |-> "intermediate"],
     project_management |-> [provider |-> "Coursera", type |-> "certification",
                             level |-> "beginner"]]

\* gpt_resource_generator.py:323-359: the resource appended for a gap.
FallbackOf(gap, resource_id) ==
    IF gap.skill_name \in DOMAIN FallbackTemplates
    THEN [id |-> <<"fallback_", ToString(resource_id)>>,
          type |-> FallbackTemplates[gap.skill_name].type,
          provider |-> FallbackTemplates[gap.skill_name].provider,
          duration |-> DurationTexts.variable,
          skills |-> <<gap.skill_name>>,
          level |-> FallbackTemplates[gap.skill_name].level]
    ELSE [id |-> <<"fallback_", ToString(resource_id)>>,
          type |-> "course",
          provider |-> "Online Learning Platform",
          duration |-> DurationTexts.four_to_six_weeks,
          skills |-> <<gap.skill_name>>,
          level |-> IF gap.current_level > 0 THEN "intermediate" ELSE "beginner"]

\* gpt_resource_generator.py:260-365: one resource for each gap of
\* skill_gaps[:max_resources], the loop ending early once the list holds
\* max_resources of them.
get_fallback_resources(skill_gaps, limit) ==
    LET shown == SliceTo(skill_gaps, limit)
        f[k \in 0..Len(shown)] ==
            IF k = 0 THEN <<>>
            ELSE IF k > 1 /\ Len(f[k - 1]) >= limit THEN f[k - 1]
            ELSE Append(f[k - 1], FallbackOf(shown[k], Len(f[k - 1]) + 1))
    IN  f[Len(shown)]

-----------------------------------------------------------------------------
(* GPTResourceGenerator: the remote call and generate_learning_resources.
   The text of a response is kept as the number of white-space characters
   before its body, the length of the body, and whether a line of the body
   reads as a title to _parse_gpt_response. *)

\* gpt_resource_generator.py:23
MAX_RETRIES == 3

\* gpt_resource_generator.py:45
REQUEST_TIMEOUT == 30

\* gpt_resource_generator.py:146
MIN_RESPONSE_LENGTH == 50

Text(leading, body, titles) == [kind |-> "text", leading |-> leading,
                                body |-> body, titles |-> titles]

\* ""
EmptyText == Text(0, 0, FALSE)

\* The exception that _generate_chat_response raises after its last attempt.
Raised == [kind |-> "raised"]

\* len(s)
Length(text) == text.leading + text.body

\* s.strip()
Strip(text) ==
    IF text.body = 0 THEN EmptyText ELSE Text(0, text.body, text.titles)

\* What one requests.post can bring: status 200 with a JSON body holding a
\* content, status 200 with a JSON body without choices, status 200 with a
\* body that is not the JSON expected, another status, a timeout, another
\* transport error.
Failures == {"malformed", "bad_status", "timeout", "transport_error"}

BackoffLinear(failed_attempt) == 2 * failed_attempt

\* 2 ** attempt
Backoff(failed_attempt) == 2 ^ failed_attempt

\* gpt_resource_generator.py:50-65: the return value on status 200.
ContentReturned(outcome) ==
    IF outcome.kind = "content"
       /\ Length(outcome.content) > 0
       /\ Length(Strip(outcome.content)) > 0
    THEN Strip(outcome.content)
    ELSE EmptyText

ParseTitles(response_text) ==
    IF response_text.titles
    THEN <<[id |-> <<"parsed">>, type |-> "course", provider |-> "Coursera",
            duration |-> DurationTexts.variable, skills |-> <<>>,
            level |-> "intermediate"]>>
    ELSE <<>>

\* gpt_resource_generator.py:174-258.  Every LearningResource(...) of the
\* parser is built without id, type, provider, duration, skills and level,
\* which models.py:45-50 require: the first construction raises a
\* ValidationError, line 251 catches it and returns resources, still empty;
\* a text without a title line builds nothing.
parse_gpt_response(response_text) == <<>>

ResourcesAfterNoFallback(answer, skill_gaps, limit) ==
    IF answer.kind = "raised" THEN <<>>
    ELSE get_fallback_resources(skill_gaps, limit)

\* gpt_resource_generator.py:144-161: what generate_learning_resources
\* returns once _generate_chat_response has returned or raised.
ResourcesAfter(answer, skill_gaps, limit) ==
    IF answer.kind = "text"
       /\ Length(answer) > 0
       /\ Length(Strip(answer)) > MIN_RESPONSE_LENGTH
       /\ parse_gpt_response(answer) # <<>>
    THEN SliceTo(parse_gpt_response(answer), limit)
    ELSE get_fallback_resources(skill_gaps, limit)

-----------------------------------------------------------------------------
(* LearningRecommender.generate_learning_plan *)

\* config.py:72, the default of MAX_LEARNING_RESOURCES
MAX_LEARNING_RESOURCES == 10

\* The max_resources argument is <<n>> for the integer n and <<>> for None.
\* learning_recommender.py:25-26
EffectiveMaxResources(argument) ==
    IF argument = <<>> THEN MAX_LEARNING_RESOURCES ELSE argument[1]

MatchesTitleOnly(position, target_role) ==
    Lower(position.title) = Lower(target_role)

\* learning_recommender.py:35
MatchesTarget(position, target_role) ==
    \/ Lower(position.title) = Lower(target_role)
    \/ position.id = target_role

\* learning_recommender.py:29-37: the first position of
\* open_positions + current_positions that matches, or None.
FindTargetPosition(target_role, open, current) ==
    LET all_positions == open \o current
        hits == { i \in DOMAIN all_positions :
                    MatchesTarget(all_positions[i], target_role) }
    IN  IF hits = {} THEN None
        ELSE all_positions[CHOOSE i \in hits : \A j \in hits : i <= j]

\* learning_recommender.py:39-47
PlanSkillGaps(employee, target_role, open, current) ==
    IF FindTargetPosition(target_role, open, current) = None
    THEN infer_skills_from_role_name(target_role, employee)
    ELSE calculate_skill_gap(
             employee,
             FindTargetPosition(target_role, open, current).required_skills)

\* learning_recommender.py:62-69; employee_id and created_at are left out.
LearningPlan(target_role, skill_gaps, recommended_resources) ==
    [target_role |-> target_role,
     skill_gaps |-> skill_gaps,
     recommended_resources |-> recommended_resources,
     estimated_duration |-> calculate_estimated_duration(recommended_resources)]

-----------------------------------------------------------------------------
(* LearningRecommender.get_trending_skills.  An average_level is kept in
   tenths, as the fraction [num, 10]. *)

\* learning_recommender.py:279: trending[:10]
TRENDING_LIMIT == 10

\* skill_demand after the loop of learning_recommender.py:256-262: one entry
\* for each skill, in the order in which the skills are first met.
skill_demand(positions) ==
    LET required ==
            LET r[k \in 0..Len(positions)] ==
                    IF k = 0 THEN <<>>
                    ELSE r[k - 1] \o positions[k].required_skills
            IN  r[Len(positions)]
        Counted(demand, item) ==
            IF \E i \in DOMAIN demand : demand[i].skill = item.skill
            THEN [i \in DOMAIN demand |->
                     IF demand[i].skill = item.skill
                     THEN [skill |-> item.skill,
                           count |-> demand[i].count + 1,
                           total_level |-> demand[i].total_level + item.level]
                     ELSE demand[i]]
            ELSE Append(demand, [skill |-> item.skill, count |-> 1,
                                 total_level |-> item.level])
        f[k \in 0..Len(required)] ==
            IF k = 0 THEN <<>> ELSE Counted(f[k - 1], required[k])
    IN  f[Len(required)]

TrendHighFromFour(count) ==
    IF count >= 4 THEN "high" ELSE IF count >= 2 THEN "medium" ELSE "low"

\* learning_recommender.py:273
Trend(count) ==
    IF count >= 3 THEN "high" ELSE IF count >= 2 THEN "medium" ELSE "low"

SortTrendingByCount(found) ==
    LET less == [i \in DOMAIN found |->
                    [j \in DOMAIN found |->
                        found[i].demand_count < found[j].demand_count]]
        order == SortReverse(Len(found), less)
    IN  [k \in DOMAIN order |-> found[order[k]]]

\* trending.sort(key=lambda x: (x["demand_count"], x["average_level"]),
\*               reverse=True)
SortTrending(found) ==
    LET less == [i \in DOMAIN found |->
                    [j \in DOMAIN found |->
                        \/ found[i].demand_count < found[j].demand_count
                        \/ /\ found[i].demand_count = found[j].demand_count
                           /\ ScoreLess(found[i].average_level,
                                        found[j].average_level)]]
        order == SortReverse(Len(found), less)
    IN  [k \in DOMAIN order |-> found[order[k]]]

\* learning_recommender.py:250-279.  round(avg_level, 1) rounds the double
\* total_level / count correctly; the model rounds the exact quotient, and
\* the two agree unless the quotient lies exactly between two tenths without
\* being a double, which takes a count that is a multiple of 20.
get_trending_skills(open) ==
    LET demand == skill_demand(open)
        found == [k \in DOMAIN demand |->
                     [skill |-> demand[k].skill,
                      demand_count |-> demand[k].count,
                      average_level |->
                          [num |-> RoundHalfEven(10 * demand[k].total_level,
                                                 demand[k].count),
                           den |-> 10],
                      trend |-> Trend(demand[k].count)]]
    IN  Prefix(SortTrending(found), TRENDING_LIMIT)

-----------------------------------------------------------------------------
(* LearningRecommender.get_skill_recommendations and
   GPTResourceGenerator.generate_skill_specific_resources *)

\* learning_recommender.py:246 and 248: max_resources=5
SKILL_RECOMMENDATION_LIMIT == 5

\* learning_recommender.py:237-243: the SkillGap built from the arguments.
RecommendationGap(skill_name, current, wanted) ==
    [skill_name |-> skill_name,
     current_level |-> current,
     required_level |-> wanted,
     gap |-> wanted - current,
     priority |-> IF wanted - current >= 3 THEN "high" ELSE "medium"]

\* gpt_resource_generator.py:374-380: the SkillGap built from the arguments.
SpecificGap(skill_name, current, wanted) ==
    [skill_name |-> skill_name,
     current_level |-> current,
     required_level |-> wanted,
     gap |-> wanted - current,
     priority |-> "high"]

-----------------------------------------------------------------------------
(* DataManager: the employee store.  employees.json is whole (it holds a
   list of employees), partial (opened for writing and not yet written) or
   corrupt (the writes of two writers overlapped); an Employee is kept as
   its id and a revision standing for its other fields. *)

Whole(employees) == [state |-> "whole", employees |-> employees]

\* data_manager.py:113-128: the employees of a whole file, and [] when
\* json.load raises JSONDecodeError.
load_employees(found) ==
    IF found.state = "whole" THEN found.employees ELSE <<>>

\* data_manager.py:159-165
get_employee_by_id(found, employee_id) ==
    LET employees == load_employees(found)
        hits == { i \in DOMAIN employees : employees[i].id = employee_id }
    IN  IF hits = {} THEN None
        ELSE employees[CHOOSE i \in hits : \A j \in hits : i <= j]

-----------------------------------------------------------------------------
(* Idle values of the variables an operation does not use *)

NoScore == Zero

IdleInputs ==
    /\ in_score = NoScore
    /\ open_positions = <<>>
    /\ current_positions = <<>>
    /\ include_current = FALSE
    /\ top_n = 0

IdleOutputs ==
    /\ gaps = <<>>
    /\ match_score = NoScore
    /\ matches = <<>>
    /\ recommendation = <<>>

inputs == <<employee_skills, required_skills, preferred_skills, in_score,
            open_positions, current_positions, include_current, top_n>>

IdlePlanInputs ==
    /\ include_external = FALSE
    /\ use_gpt = FALSE
    /\ configured = FALSE
    /\ max_resources = 0

IdleRemote ==
    /\ gen_pc = "idle"
    /\ attempt = 0
    /\ chat_log = <<>>
    /\ response = None

IdleResults ==
    /\ report = None
    /\ suggestions = <<>>
    /\ resources = <<>>
    /\ plan = None
    /\ estimated_duration = <<>>

IdleExt ==
    /\ target = <<>>
    /\ IdlePlanInputs
    /\ IdleRemote
    /\ IdleResults

IdleMore ==
    /\ trending = <<>>
    /\ arg_current_level = 0
    /\ arg_target_level = 0
    /\ calls = <<>>
    /\ file = <<>>
    /\ stored = <<>>
    /\ saving = <<>>

-----------------------------------------------------------------------------
(* calculate_skill_gap applied to every pair of bounded skill maps *)

InitGap ==
    /\ pc = "start"
    /\ IdleMore
    /\ employee_skills \in EmployeeMaps(Skills, 0..MaxLevel)
    /\ required_skills \in SkillMaps(Skills, 1..MaxLevel, MaxSkills)
    /\ preferred_skills = <<>>
    /\ IdleInputs
    /\ IdleOutputs
    /\ IdleExt

CalculateSkillGap ==
    /\ pc = "start"
    /\ pc' = "done"
    /\ gaps' = calculate_skill_gap(employee_skills, required_skills)
    /\ UNCHANGED <<more, ext, inputs, match_score, matches, recommendation>>

NextGap == CalculateSkillGap

SpecGap == InitGap /\ [][NextGap]_vars

-----------------------------------------------------------------------------
(* calculate_position_match_score applied to bounded employees and positions *)

ThePosition ==
    [required_skills |-> required_skills, preferred_skills |-> preferred_skills]

InitScore ==
    /\ pc = "start"
    /\ IdleMore
    /\ employee_skills \in EmployeeMaps(ScoreSkills, 0..MaxLevel)
    /\ required_skills \in SkillMaps(ScoreSkills, 1..MaxLevel, MaxSkills)
    /\ preferred_skills \in SkillMaps(ScoreSkills, 1..MaxLevel, MaxPreferred)
    /\ IdleInputs
    /\ IdleOutputs
    /\ IdleExt

CalculatePositionMatchScore ==
    /\ pc = "start"
    /\ pc' = "done"
    /\ match_score' = calculate_position_match_score(employee_skills, ThePosition)
    /\ UNCHANGED <<more, ext, inputs, gaps, matches, recommendation>>

NextScore == CalculatePositionMatchScore

SpecScore == InitScore /\ [][NextScore]_vars

-----------------------------------------------------------------------------
(* find_position_matches applied to bounded catalogs *)

Position(id, required, preferred) ==
    [id |-> id, required_skills |-> required, preferred_skills |-> preferred]

\* The (required_skills, preferred_skills) of the positions of a catalog.
PositionTemplates ==
    { << <<Entry("python", 4), Entry("sql", 3)>>, <<>> >>,
      << <<Entry("python", 4)>>, <<Entry("sql", 2)>> >>,
      << <<Entry("sql", 3), Entry("python", 4)>>, <<Entry("java", 2)>> >>,
      << <<Entry("python", 5), Entry("sql", 1), Entry("java", 1)>>, <<>> >>,
      << <<Entry("python", 2)>>, <<>> >> }

\* The catalogs of at most n positions; the identifier of a position is its
\* list and its place in it, so identifiers are unique within a catalog.
Catalogs(list, n) ==
    UNION { { [i \in 1..k |-> Position(<<list, i>>, t[i][1], t[i][2])] :
                t \in [1..k -> PositionTemplates] }
            : k \in 0..n }

Employee3(python, sql, java) ==
    [s \in Skills |-> IF s = "python" THEN python ELSE IF s = "sql" THEN sql ELSE java]

FindEmployees ==
    { [s \in {"python"} |-> 2],
      [s \in {"python", "sql"} |-> IF s = "python" THEN 4 ELSE 2],
      [s \in {"python", "sql"} |-> IF s = "python" THEN 5 ELSE 0],
      Employee3(5, 5, 2),
      Employee3(3, 3, 0) }

InitFind ==
    /\ pc = "start"
    /\ IdleMore
    /\ employee_skills \in FindEmployees
    /\ required_skills = <<>>
    /\ preferred_skills = <<>>
    /\ in_score = NoScore
    /\ open_positions \in Catalogs("open", MaxOpen)
    /\ current_positions \in Catalogs("current", MaxCurrent)
    /\ include_current \in BOOLEAN
    /\ top_n \in (1..MaxTopN) \cup {RECOMMENDATION_COUNT_DEFAULT}
    /\ IdleOutputs
    /\ IdleExt

FindPositionMatches ==
    /\ pc = "start"
    /\ pc' = "done"
    /\ matches' = find_position_matches(employee_skills, open_positions,
                                        current_positions, include_current, top_n)
    /\ UNCHANGED <<more, ext, inputs, gaps, match_score, recommendation>>

NextFind == FindPositionMatches

SpecFind == InitFind /\ [][NextFind]_vars

-----------------------------------------------------------------------------
(* _generate_position_recommendation applied to bounded scores, gap lists and
   missing-skill maps, the latter two computed as find_position_matches does *)

InitRec ==
    /\ pc = "start"
    /\ IdleMore
    /\ employee_skills \in EmployeeMaps(RecSkills, RecEmployeeLevels)
    /\ required_skills \in SkillMaps(RecSkills, RecRequiredLevels, MaxRecSkills)
    /\ preferred_skills = <<>>
    /\ in_score \in { [num |-> k, den |-> ScoreGrid] : k \in 0..ScoreGrid }
    /\ open_positions = <<>>
    /\ current_positions = <<>>
    /\ include_current = FALSE
    /\ top_n = 0
    /\ IdleOutputs
    /\ IdleExt

GeneratePositionRecommendation ==
    /\ pc = "start"
    /\ pc' = "done"
    /\ gaps' = calculate_skill_gap(employee_skills, required_skills)
    /\ recommendation' =
          generate_position_recommendation(in_score, gaps',
              MissingSkills(employee_skills, required_skills))
    /\ UNCHANGED <<more, ext, inputs, match_score, matches>>

NextRec == GeneratePositionRecommendation

SpecRec == InitRec /\ [][NextRec]_vars

-----------------------------------------------------------------------------
(* analyze_career_progression applied to bounded catalogs, employees and
   target identifiers *)

\* The lists of at most n positions built from templates
\* <<required_skills, preferred_skills>> with identifiers drawn from ids: an
\* identifier can occur twice in a list, and in both lists of a catalog.
PositionLists(ids, templates, n) ==
    UNION { [1..k -> { Position(id, t[1], t[2]) : id \in ids, t \in templates }]
            : k \in 0..n }

InitCareer ==
    LET ids == {"dev_1", "dev_2"}
        templates ==
            { << <<Entry("python", 5)>>, <<>> >>,
              << <<Entry("python", 4), Entry("sql", 3), Entry("java", 3)>>,
                 <<>> >>,
              << <<Entry("sql", 2)>>, <<Entry("java", 2)>> >> }
    IN  /\ pc = "start"
        /\ IdleMore
        /\ employee_skills \in
              { [s \in {"python"} |-> 4],
                [s \in {"python", "sql"} |-> IF s = "python" THEN 1 ELSE 2],
                Employee3(5, 5, 5) }
        /\ required_skills = <<>>
        /\ preferred_skills = <<>>
        /\ in_score = NoScore
        /\ open_positions \in PositionLists(ids, templates, MaxOpen)
        /\ current_positions \in PositionLists(ids, templates, MaxCurrent)
        /\ include_current = FALSE
        /\ top_n = 0
        /\ IdleOutputs
        /\ target \in ids \cup {"dev_9"}
        /\ IdlePlanInputs
        /\ IdleRemote
        /\ IdleResults

AnalyzeCareerProgression ==
    /\ pc = "start"
    /\ pc' = "done"
    /\ report' = analyze_career_progression(employee_skills, target,
                                            current_positions, open_positions)
    /\ UNCHANGED <<more, inputs, gaps, match_score, matches, recommendation, target,
                   suggestions, include_external, use_gpt, configured,
                   max_resources, gen_pc, attempt, chat_log, response,
                   resources, plan, estimated_duration>>

SpecCareer == InitCareer /\ [][AnalyzeCareerProgression]_vars

-----------------------------------------------------------------------------
(* get_career_path_suggestions applied to bounded catalogs and employees *)

MaxSuggestOpen == 4
MaxSuggestCurrent == 2

\* The lists of at most n positions; the title of a position is its list and
\* its place in it.
TitledLists(list, n) ==
    LET templates ==
            { [department |-> "Data",
               required_skills |-> <<Entry("python", 5), Entry("sql", 4)>>,
               preferred_skills |-> <<Entry("java", 5)>>],
              [department |-> "Engineering",
               required_skills |-> <<Entry("python", 4)>>,
               preferred_skills |-> <<>>],
              [department |-> "Data",
               required_skills |-> <<Entry("sql", 4), Entry("java", 2)>>,
               preferred_skills |-> <<>>] }
    IN  UNION { { [i \in 1..k |-> [id |-> <<list, i>>,
                                   title |-> <<list, i>>,
                                   department |-> t[i].department,
                                   required_skills |-> t[i].required_skills,
                                   preferred_skills |-> t[i].preferred_skills]] :
                    t \in [1..k -> templates] }
                : k \in 0..n }

InitSuggest ==
    /\ pc = "start"
    /\ IdleMore
    /\ employee_skills \in
          { Employee3(1, 4, 1),
            Employee3(5, 5, 2),
            [s \in {"python", "sql"} |-> IF s = "python" THEN 3 ELSE 2] }
    /\ required_skills = <<>>
    /\ preferred_skills = <<>>
    /\ in_score = NoScore
    /\ open_positions \in TitledLists("open", MaxSuggestOpen)
    /\ current_positions \in TitledLists("current", MaxSuggestCurrent)
    /\ include_current = FALSE
    /\ top_n = 0
    /\ IdleOutputs
    /\ IdleExt

GetCareerPathSuggestions ==
    /\ pc = "start"
    /\ pc' = "done"
    /\ suggestions' = get_career_path_suggestions(employee_skills, open_positions,
                                                  current_positions)
    /\ UNCHANGED <<more, inputs, gaps, match_score, matches, recommendation, target,
                   report, include_external, use_gpt, configured,
                   max_resources, gen_pc, attempt, chat_log, response,
                   resources, plan, estimated_duration>>

SpecSuggest == InitSuggest /\ [][GetCareerPathSuggestions]_vars

-----------------------------------------------------------------------------
(* _infer_skills_from_role_name applied to bounded role names and employees *)

InitInfer ==
    /\ pc = "start"
    /\ IdleMore
    /\ employee_skills \in
          { [s \in {} |-> 0],
            [python |-> 2, sql |-> 3],
            [python |-> 0, sql |-> 1, statistics |-> 5, data_analysis |-> 2],
            [machine_learning |-> 1, python |-> 3, react |-> 1, sql |-> 2],
            [python |-> 1, javascript |-> 1, sql |-> 0, problem_solving |-> 2],
            [python |-> 5, sql |-> 5, data_analysis |-> 5, statistics |-> 3],
            [project_management |-> 2, machine_learning |-> 4],
            [python |-> 2, machine_learning |-> 0, statistics |-> 2,
             data_analysis |-> 1] }
    /\ required_skills = <<>>
    /\ preferred_skills = <<>>
    /\ IdleInputs
    /\ IdleOutputs
    /\ target \in
          { RoleTexts.data_analyst, RoleTexts.two_roles,
            RoleTexts.data_scientist, RoleTexts.ml_engineer,
            RoleTexts.ml_expert, RoleTexts.python_guru, RoleTexts.react_sql,
            RoleTexts.underscore, RoleTexts.chef }
    /\ IdlePlanInputs
    /\ IdleRemote
    /\ IdleResults

InferSkillsFromRoleName ==
    /\ pc = "start"
    /\ pc' = "done"
    /\ gaps' = infer_skills_from_role_name(target, employee_skills)
    /\ UNCHANGED <<more, ext, inputs, match_score, matches, recommendation>>

SpecInfer == InitInfer /\ [][InferSkillsFromRoleName]_vars

-----------------------------------------------------------------------------
(* _calculate_estimated_duration applied to bounded resource lists *)

MaxDurations == 2

\* The lists of at most n resources, each with one of the durations;
\* _calculate_estimated_duration reads no other field.
ResourceLists(n) ==
    LET given == { [id |-> <<"given">>, type |-> "course",
                    provider |-> "Provider", duration |-> DurationTexts[d],
                    skills |-> <<"python">>, level |-> "beginner"] :
                   d \in DOMAIN DurationTexts }
    IN  UNION { [1..k -> given] : k \in 0..n }

InitDuration ==
    /\ pc = "start"
    /\ IdleMore
    /\ employee_skills = [s \in {} |-> 0]
    /\ required_skills = <<>>
    /\ preferred_skills = <<>>
    /\ IdleInputs
    /\ IdleOutputs
    /\ target = <<>>
    /\ IdlePlanInputs
    /\ IdleRemote
    /\ report = None
    /\ suggestions = <<>>
    /\ resources \in ResourceLists(MaxDurations)
    /\ plan = None
    /\ estimated_duration = <<>>

CalculateEstimatedDuration ==
    /\ pc = "start"
    /\ pc' = "done"
    /\ estimated_duration' = calculate_estimated_duration(resources)
    /\ UNCHANGED <<more, inputs, gaps, match_score, matches, recommendation, target,
                   report, suggestions, include_external, use_gpt, configured,
                   max_resources, gen_pc, attempt, chat_log, response,
                   resources, plan>>

SpecDuration == InitDuration /\ [][CalculateEstimatedDuration]_vars

-----------------------------------------------------------------------------
(* generate_learning_resources, one step for each request and each sleep of
   _generate_chat_response *)

MaxResources == 3

\* What one request can come to.  The contents a 200 response can hold: none,
\* white space only, a body of at most 50 characters, a longer body without a
\* title line, and longer bodies with title lines.
Outcomes ==
    { [kind |-> "content", content |-> c] :
          c \in { Text(0, 0, FALSE),
                  Text(1, 0, FALSE),
                  Text(1, MIN_RESPONSE_LENGTH, TRUE),
                  Text(0, MIN_RESPONSE_LENGTH + 1, FALSE),
                  Text(1, MIN_RESPONSE_LENGTH + 1, TRUE) } }
    \cup { [kind |-> "no_choices", content |-> EmptyText] }
    \cup { [kind |-> k, content |-> EmptyText] : k \in Failures }

\* gpt_resource_generator.py:98-104: the two early returns, else the call of
\* _generate_chat_response.
EnterGenerator ==
    /\ gen_pc = "called"
    /\ IF ~configured \/ gaps = <<>>
       THEN /\ resources' = get_fallback_resources(gaps, max_resources)
            /\ gen_pc' = "returned"
       ELSE /\ gen_pc' = "post"
            /\ UNCHANGED resources
    /\ UNCHANGED <<more, pc, inputs, gaps, match_score, matches, recommendation,
                   target, report, suggestions, include_external, use_gpt,
                   configured, max_resources, attempt, chat_log, response,
                   plan, estimated_duration>>

\* gpt_resource_generator.py:43-86: one requests.post and what follows it up
\* to the sleep, the return or the raise.
Post ==
    /\ gen_pc = "post"
    /\ \E outcome \in Outcomes :
          /\ chat_log' = Append(chat_log, [kind |-> "post",
                                           attempt |-> attempt,
                                           timeout |-> REQUEST_TIMEOUT,
                                           outcome |-> outcome.kind])
          /\ IF outcome.kind \notin Failures
             THEN /\ response' = ContentReturned(outcome)
                  /\ gen_pc' = "answered"
             ELSE IF attempt < MAX_RETRIES - 1
             THEN /\ gen_pc' = "sleep"
                  /\ UNCHANGED response
             ELSE /\ response' = Raised
                  /\ gen_pc' = "answered"
    /\ UNCHANGED <<more, pc, inputs, gaps, match_score, matches, recommendation,
                   target, report, suggestions, include_external, use_gpt,
                   configured, max_resources, attempt, resources, plan,
                   estimated_duration>>

\* gpt_resource_generator.py:88-90: time.sleep(2 ** attempt), then the next
\* iteration.
Sleep ==
    /\ gen_pc = "sleep"
    /\ chat_log' = Append(chat_log, [kind |-> "sleep",
                                     attempt |-> attempt,
                                     seconds |-> Backoff(attempt)])
    /\ attempt' = attempt + 1
    /\ gen_pc' = "post"
    /\ UNCHANGED <<more, pc, inputs, gaps, match_score, matches, recommendation,
                   target, report, suggestions, include_external, use_gpt,
                   configured, max_resources, response, resources, plan,
                   estimated_duration>>

\* gpt_resource_generator.py:144-161
LeaveGenerator ==
    /\ gen_pc = "answered"
    /\ resources' = ResourcesAfter(response, gaps, max_resources)
    /\ gen_pc' = "returned"
    /\ UNCHANGED <<more, pc, inputs, gaps, match_score, matches, recommendation,
                   target, report, suggestions, include_external, use_gpt,
                   configured, max_resources, attempt, chat_log, response,
                   plan, estimated_duration>>

InitGen ==
    /\ pc = "generate"
    /\ IdleMore
    /\ employee_skills = [s \in {} |-> 0]
    /\ required_skills = <<>>
    /\ preferred_skills = <<>>
    /\ IdleInputs
    \* The gap lists given to generate_learning_resources: lists that
    \* calculate_skill_gap returns, the empty one among them.
    /\ gaps \in
          { calculate_skill_gap(e, r) :
                e \in { [s \in {"python"} |-> 2], Employee3(5, 5, 5) },
                r \in { <<Entry("python", 4)>>,
                        <<Entry("python", 4), Entry("sql", 3)>>,
                        <<Entry("machine_learning", 4), Entry("sql", 5),
                          Entry("java", 2)>> } }
    /\ match_score = NoScore
    /\ matches = <<>>
    /\ recommendation = <<>>
    /\ target = <<>>
    /\ include_external = FALSE
    /\ use_gpt = TRUE
    /\ configured \in BOOLEAN
    /\ max_resources \in (-1)..MaxResources
    /\ gen_pc = "called"
    /\ attempt = 0
    /\ chat_log = <<>>
    /\ response = None
    /\ IdleResults

SpecGen == InitGen /\ [][EnterGenerator \/ Post \/ Sleep \/ LeaveGenerator]_vars

-----------------------------------------------------------------------------
(* generate_learning_plan applied to bounded catalogs, employees, targets and
   settings, with the steps of the remote call *)

MaxPlanResources == 2

\* The catalogs, as <<open positions, current positions>>; the identifier of
\* the third position is "Chef".
PlanCatalogs ==
    LET Titled(id, title, required) ==
            [id |-> id, title |-> title, required_skills |-> required,
             preferred_skills |-> <<>>]
        analyst == Titled(RoleTexts.id_P1, RoleTexts.data_analyst,
                          <<Entry("python", 4), Entry("sql", 3)>>)
        upper_analyst == Titled(RoleTexts.id_p2, RoleTexts.upper_data_analyst,
                                <<Entry("java", 2)>>)
        cook == Titled(RoleTexts.chef, RoleTexts.cook, <<Entry("sql", 5)>>)
    IN  { << <<>>, <<>> >>,
          << <<analyst>>, <<upper_analyst>> >>,
          << <<upper_analyst, analyst>>, <<>> >>,
          << <<cook>>, <<analyst>> >>,
          << <<>>, <<upper_analyst, cook>> >> }

InitPlan ==
    /\ pc = "start"
    /\ IdleMore
    /\ employee_skills \in { [s \in {"python"} |-> 2], Employee3(5, 5, 5) }
    /\ required_skills = <<>>
    /\ preferred_skills = <<>>
    /\ in_score = NoScore
    /\ \E catalog \in PlanCatalogs :
          /\ open_positions = catalog[1]
          /\ current_positions = catalog[2]
    /\ include_current = FALSE
    /\ top_n = 0
    /\ IdleOutputs
    /\ target \in { RoleTexts.data_analyst, RoleTexts.id_P1, RoleTexts.id_p1,
                    RoleTexts.chef, RoleTexts.lower_chef,
                    RoleTexts.python_guru }
    /\ include_external \in BOOLEAN
    /\ use_gpt \in BOOLEAN
    /\ configured \in BOOLEAN
    \* The callers pass max_resources = 3 or 5, or leave it out
    \* (learning_chatbot_clean.py:118 and 198): a positive number or None.
    /\ max_resources \in {<<>>} \cup { <<n>> : n \in 1..MaxPlanResources }
    /\ IdleRemote
    /\ IdleResults

\* learning_recommender.py:25-47 and, with USE_GPT_RESOURCE_GENERATION, the
\* call of generate_learning_resources at lines 50-54.
BeginPlanWithGenerator ==
    /\ pc = "start"
    /\ use_gpt
    /\ max_resources' = EffectiveMaxResources(max_resources)
    /\ gaps' = PlanSkillGaps(employee_skills, target, open_positions,
                             current_positions)
    /\ gen_pc' = "called"
    /\ pc' = "resources"
    /\ UNCHANGED <<more, inputs, match_score, matches, recommendation, target,
                   report, suggestions, include_external, use_gpt, configured,
                   attempt, chat_log, response, resources, plan,
                   estimated_duration>>

\* learning_recommender.py:61-69, once generate_learning_resources has
\* returned.
FinishPlan ==
    /\ pc = "resources"
    /\ gen_pc = "returned"
    /\ estimated_duration' = calculate_estimated_duration(resources)
    /\ plan' = LearningPlan(target, gaps, resources)
    /\ pc' = "done"
    /\ UNCHANGED <<more, inputs, gaps, match_score, matches, recommendation, target,
                   report, suggestions, include_external, use_gpt, configured,
                   max_resources, gen_pc, attempt, chat_log, response,
                   resources>>

\* learning_recommender.py:25-69 without USE_GPT_RESOURCE_GENERATION.
PlanWithBasicResources ==
    /\ pc = "start"
    /\ ~use_gpt
    /\ max_resources' = EffectiveMaxResources(max_resources)
    /\ gaps' = PlanSkillGaps(employee_skills, target, open_positions,
                             current_positions)
    /\ resources' = generate_basic_resources(gaps', max_resources')
    /\ estimated_duration' = calculate_estimated_duration(resources')
    /\ plan' = LearningPlan(target, gaps', resources')
    /\ pc' = "done"
    /\ UNCHANGED <<more, inputs, match_score, matches, recommendation, target,
                   report, suggestions, include_external, use_gpt, configured,
                   gen_pc, attempt, chat_log, response>>

SpecPlan ==
    InitPlan /\ [][BeginPlanWithGenerator \/ PlanWithBasicResources
                    \/ EnterGenerator \/ Post \/ Sleep \/ LeaveGenerator
                    \/ FinishPlan]_vars

-----------------------------------------------------------------------------
(* get_trending_skills applied to bounded lists of open positions *)

MaxTrendOpen == 3

\* The lists of at most n open positions: positions requiring python alone, at
\* levels 3 and 5, python and sql, and two positions requiring six more
\* skills each.
TrendLists(n) ==
    LET templates ==
            { <<Entry("python", 3)>>,
              <<Entry("python", 5)>>,
              <<Entry("sql", 2), Entry("python", 4)>>,
              <<Entry("javascript", 3), Entry("react", 4), Entry("nodejs", 2),
                Entry("sql", 3), Entry("aws", 1), Entry("docker", 4)>>,
              <<Entry("leadership", 2), Entry("communication", 5),
                Entry("agile", 1), Entry("statistics", 3),
                Entry("data_analysis", 4), Entry("machine_learning", 5)>> }
    IN  UNION { { [i \in 1..k |-> Position(<<"open", i>>, t[i], <<>>)] :
                    t \in [1..k -> templates] }
                : k \in 0..n }

InitTrend ==
    /\ pc = "start"
    /\ employee_skills = [s \in {} |-> 0]
    /\ required_skills = <<>>
    /\ preferred_skills = <<>>
    /\ in_score = NoScore
    /\ open_positions \in TrendLists(MaxTrendOpen)
    /\ current_positions \in
          { <<>>, <<Position(<<"current", 1>>, <<Entry("python", 1)>>, <<>>)>> }
    /\ include_current = FALSE
    /\ top_n = 0
    /\ IdleOutputs
    /\ IdleExt
    /\ IdleMore

GetTrendingSkills ==
    /\ pc = "start"
    /\ pc' = "done"
    /\ trending' = get_trending_skills(open_positions)
    /\ UNCHANGED <<ext, inputs, gaps, match_score, matches, recommendation,
                   arg_current_level, arg_target_level, calls, file, stored, saving>>

SpecTrend == InitTrend /\ [][GetTrendingSkills]_vars

-----------------------------------------------------------------------------
(* get_skill_recommendations and generate_skill_specific_resources applied to
   bounded skills and levels, with the steps of the remote call *)

InitSkill ==
    /\ pc = "start"
    /\ employee_skills = [s \in {} |-> 0]
    /\ required_skills = <<>>
    /\ preferred_skills = <<>>
    /\ IdleInputs
    /\ IdleOutputs
    /\ target \in {"python", "docker"}
    /\ include_external = FALSE
    /\ use_gpt \in BOOLEAN
    /\ configured \in BOOLEAN
    \* generate_skill_specific_resources: max_resources, 3 when left out
    /\ max_resources \in {1, 3}
    /\ IdleRemote
    /\ IdleResults
    /\ trending = <<>>
    /\ arg_current_level \in 0..MaxLevel
    /\ arg_target_level \in 1..MaxLevel
    /\ calls = <<>>
    /\ file = <<>>
    /\ stored = <<>>
    /\ saving = <<>>

\* learning_recommender.py:231-246, with USE_GPT_RESOURCE_GENERATION: up to
\* the call of generate_learning_resources.
BeginSkillRecommendations ==
    /\ pc = "start"
    /\ use_gpt
    /\ gaps' = <<RecommendationGap(target, arg_current_level, arg_target_level)>>
    /\ max_resources' = SKILL_RECOMMENDATION_LIMIT
    /\ gen_pc' = "called"
    /\ pc' = "resources"
    /\ UNCHANGED <<more, inputs, match_score, matches, recommendation, target,
                   report, suggestions, include_external, use_gpt, configured,
                   attempt, chat_log, response, resources, plan,
                   estimated_duration>>

\* learning_recommender.py:231-248, without USE_GPT_RESOURCE_GENERATION.
SkillRecommendationsBasic ==
    /\ pc = "start"
    /\ ~use_gpt
    /\ gaps' = <<RecommendationGap(target, arg_current_level, arg_target_level)>>
    /\ max_resources' = SKILL_RECOMMENDATION_LIMIT
    /\ resources' = generate_basic_resources(gaps', max_resources')
    /\ pc' = "done"
    /\ UNCHANGED <<more, inputs, match_score, matches, recommendation, target,
                   report, suggestions, include_external, use_gpt, configured,
                   gen_pc, attempt, chat_log, response, plan,
                   estimated_duration>>

\* gpt_resource_generator.py:367-382: up to the call of
\* generate_learning_resources.
BeginSkillSpecificResources ==
    /\ pc = "start"
    /\ gaps' = <<SpecificGap(target, arg_current_level, arg_target_level)>>
    /\ gen_pc' = "called"
    /\ pc' = "resources"
    /\ UNCHANGED <<more, inputs, match_score, matches, recommendation, target,
                   report, suggestions, include_external, use_gpt, configured,
                   max_resources, attempt, chat_log, response, resources,
                   plan, estimated_duration>>

\* learning_recommender.py:246 and gpt_resource_generator.py:382: the list
\* that generate_learning_resources returned is returned.
ReturnSkillResources ==
    /\ pc = "resources"
    /\ gen_pc = "returned"
    /\ pc' = "done"
    /\ UNCHANGED <<more, inputs, gaps, match_score, matches, recommendation,
                   ext>>

SpecSkill ==
    InitSkill /\ [][\/ BeginSkillRecommendations
                    \/ SkillRecommendationsBasic
                    \/ BeginSkillSpecificResources
                    \/ EnterGenerator \/ Post \/ Sleep \/ LeaveGenerator
                    \/ ReturnSkillResources]_vars

-----------------------------------------------------------------------------
(* The four analyzers called one after another, in any order, on one
   employee and one stored catalog *)

MaxCalls == 2

InitTwice ==
    /\ pc = "start"
    /\ employee_skills \in FindEmployees
    /\ required_skills = <<Entry("python", 4), Entry("sql", 3)>>
    /\ preferred_skills = <<Entry("java", 2)>>
    /\ in_score = NoScore
    /\ open_positions \in Catalogs("open", 1)
    /\ current_positions \in Catalogs("current", 1)
    /\ include_current \in BOOLEAN
    /\ top_n = RECOMMENDATION_COUNT_DEFAULT
    /\ IdleOutputs
    /\ IdleExt
    /\ IdleMore

\* skill_matcher.py:14-44: the call reads its two arguments and builds a new
\* list.
CallCalculateSkillGap ==
    /\ Len(calls) < MaxCalls
    /\ gaps' = calculate_skill_gap(employee_skills, required_skills)
    /\ calls' = Append(calls, [op |-> "calculate_skill_gap", result |-> gaps'])
    /\ pc' = "done"
    /\ UNCHANGED <<ext, inputs, match_score, matches, recommendation,
                   trending, arg_current_level, arg_target_level, file,
                   stored, saving>>

\* skill_matcher.py:46-89: the call reads its two arguments.
CallCalculatePositionMatchScore ==
    /\ Len(calls) < MaxCalls
    /\ match_score' =
          calculate_position_match_score(
              employee_skills,
              [required_skills |-> required_skills,
               preferred_skills |-> preferred_skills])
    /\ calls' = Append(calls, [op |-> "calculate_position_match_score",
                               result |-> match_score'])
    /\ pc' = "done"
    /\ UNCHANGED <<ext, inputs, gaps, matches, recommendation, trending,
                   arg_current_level, arg_target_level, file, stored, saving>>

CallFindExtendingStored ==
    /\ Len(calls) < MaxCalls
    /\ matches' = find_position_matches(employee_skills, open_positions,
                                        current_positions, include_current,
                                        top_n)
    /\ calls' = Append(calls, [op |-> "find_position_matches",
                               result |-> matches'])
    /\ open_positions' = PositionsToCheck(open_positions, current_positions,
                                          include_current)
    /\ pc' = "done"
    /\ UNCHANGED <<ext, employee_skills, required_skills, preferred_skills,
                   in_score, current_positions, include_current, top_n, gaps,
                   match_score, recommendation, trending, arg_current_level,
                   arg_target_level, file, stored, saving>>

\* skill_matcher.py:91-132.  get_open_positions (data_manager.py:85-94) reads
\* positions.json and builds a new list at every call, so the extend of line
\* 103 changes a list that only this call holds; the stored catalog stays.
CallFindPositionMatches ==
    /\ Len(calls) < MaxCalls
    /\ matches' = find_position_matches(employee_skills, open_positions,
                                        current_positions, include_current,
                                        top_n)
    /\ calls' = Append(calls, [op |-> "find_position_matches",
                               result |-> matches'])
    /\ pc' = "done"
    /\ UNCHANGED <<ext, inputs, gaps, match_score, recommendation, trending,
                   arg_current_level, arg_target_level, file, stored, saving>>

\* learning_recommender.py:250-279: the call reads the open positions.
CallGetTrendingSkills ==
    /\ Len(calls) < MaxCalls
    /\ trending' = get_trending_skills(open_positions)
    /\ calls' = Append(calls, [op |-> "get_trending_skills",
                               result |-> trending'])
    /\ pc' = "done"
    /\ UNCHANGED <<ext, inputs, gaps, match_score, matches, recommendation,
                   arg_current_level, arg_target_level, file, stored, saving>>

SpecTwice ==
    InitTwice /\ [][\/ CallCalculateSkillGap
                    \/ CallCalculatePositionMatchScore
                    \/ CallFindPositionMatches
                    \/ CallGetTrendingSkills]_vars

-----------------------------------------------------------------------------
(* Two save_employee calls for different employees running at once, one step
   for the load, one for the open that truncates the file, one for the dump *)

MaxStored == 2

SaveCalls == {1, 2}

InitSave ==
    /\ pc = "start"
    /\ employee_skills = [s \in {} |-> 0]
    /\ required_skills = <<>>
    /\ preferred_skills = <<>>
    /\ IdleInputs
    /\ IdleOutputs
    /\ IdleExt
    /\ trending = <<>>
    /\ arg_current_level = 0
    /\ arg_target_level = 0
    /\ calls = <<>>
    /\ stored \in
          { employees \in
                UNION { [1..k -> [id : {"emp_1", "emp_2", "emp_3"},
                                  revision : {0}]] : k \in 0..MaxStored } :
              \A i, j \in DOMAIN employees :
                  i # j => employees[i].id # employees[j].id }
    /\ file = Whole(stored)
    /\ \E first \in {"emp_1", "emp_4"}, second \in {"emp_2", "emp_5"} :
          saving = [call \in SaveCalls |->
                       [pc |-> "load",
                        employee |-> [id |-> IF call = 1 THEN first
                                             ELSE second,
                                      revision |-> call],
                        employees |-> <<>>]]

\* data_manager.py:133-144: load_employees, then the employee replaces the
\* first one with its id or is appended.
SaveLoad(call) ==
    /\ saving[call].pc = "load"
    /\ LET employee == saving[call].employee
           loaded == load_employees(file)
           hits == { i \in DOMAIN loaded : loaded[i].id = employee.id }
           at == CHOOSE i \in hits : \A j \in hits : i <= j
       IN  saving' =
               [saving EXCEPT
                   ![call].pc = "open",
                   ![call].employees =
                       IF hits = {} THEN Append(loaded, employee)
                       ELSE [loaded EXCEPT ![at] = employee]]
    /\ UNCHANGED <<pc, ext, inputs, gaps, match_score, matches,
                   recommendation, trending, arg_current_level,
                   arg_target_level, calls, file, stored>>

\* data_manager.py:151: open(..., 'w') empties the file.
SaveOpen(call) ==
    /\ saving[call].pc = "open"
    /\ file' = [state |-> "partial", employees |-> <<>>]
    /\ saving' = [saving EXCEPT ![call].pc = "dump"]
    /\ UNCHANGED <<pc, ext, inputs, gaps, match_score, matches,
                   recommendation, trending, arg_current_level,
                   arg_target_level, calls, stored>>

\* data_manager.py:152-154: json.dump, the close, return True.  When the
\* other call has written since this one opened the file, the two texts
\* overlap: the file holds this call's list, or what is left of the other
\* text after it, which is not JSON.
SaveDump(call) ==
    /\ saving[call].pc = "dump"
    /\ \/ file' = Whole(saving[call].employees)
       \/ /\ file.state # "partial"
          /\ file' = [state |-> "corrupt", employees |-> <<>>]
    /\ saving' = [saving EXCEPT ![call].pc = "returned"]
    /\ UNCHANGED <<pc, ext, inputs, gaps, match_score, matches,
                   recommendation, trending, arg_current_level,
                   arg_target_level, calls, stored>>

SpecSave ==
    InitSave /\ [][\E call \in SaveCalls :
                      SaveLoad(call) \/ SaveOpen(call) \/ SaveDump(call)]_vars

-----------------------------------------------------------------------------
(* Properties of calculate_skill_gap (SpecGap) *)

\* C1: calculate_skill_gap returns exactly one SkillGap for each required
\* skill whose required level exceeds current.get(skill, 0) and none for any
\* other skill; each entry has current_level = current.get(skill, 0) and
\* gap = required_level - current_level > 0.
C1_GapEntries ==
    pc = "done" =>
        /\ \A i \in DOMAIN required_skills :
              LET item == required_skills[i]
                  n == Cardinality({ k \in DOMAIN gaps :
                                       gaps[k].skill_name = item.skill })
              IN  IF item.level > Get(employee_skills, item.skill)
                  THEN n = 1 ELSE n = 0
        /\ \A k \in DOMAIN gaps :
              /\ gaps[k].skill_name \in Keys(required_skills)
              /\ Entry(gaps[k].skill_name, gaps[k].required_level)
                    \in { required_skills[i] : i \in DOMAIN required_skills }
              /\ gaps[k].current_level = Get(employee_skills, gaps[k].skill_name)
              /\ gaps[k].gap = gaps[k].required_level - gaps[k].current_level
              /\ gaps[k].gap > 0

\* A call that returned two gaps and left out a required skill that is met.
C1_Witness ==
    /\ pc = "done"
    /\ Len(gaps) = 2
    /\ \E i \in DOMAIN required_skills :
          /\ required_skills[i].skill \in DOMAIN employee_skills
          /\ employee_skills[required_skills[i].skill] >= required_skills[i].level

\* C2: every returned SkillGap has priority "high" exactly when gap >= 3,
\* "medium" exactly when gap = 2 and "low" exactly when gap = 1.
C2_PriorityRule ==
    pc = "done" =>
        \A k \in DOMAIN gaps :
            /\ gaps[k].priority = "high" <=> gaps[k].gap >= 3
            /\ gaps[k].priority = "medium" <=> gaps[k].gap = 2
            /\ gaps[k].priority = "low" <=> gaps[k].gap = 1

\* A call that returned a gap of exactly 3, one of 2 and one of 1.
C2_Witness ==
    /\ pc = "done"
    /\ \E a, b, c \in DOMAIN gaps :
          gaps[a].gap = 3 /\ gaps[b].gap = 2 /\ gaps[c].gap = 1

PriorityWeight(p) == IF p = "high" THEN 3 ELSE IF p = "medium" THEN 2 ELSE 1

\* C3: the returned list is ordered non-increasing by (gap, priority weight)
\* with high = 3, medium = 2, low = 1; and current = {python: 2},
\* required = {python: 4, sql: 3} gives
\* [sql (0 -> 3, gap 3, high), python (2 -> 4, gap 2, medium)].
C3_GapOrder ==
    pc = "done" =>
        /\ \A k \in 1..(Len(gaps) - 1) :
              \/ gaps[k].gap > gaps[k + 1].gap
              \/ /\ gaps[k].gap = gaps[k + 1].gap
                 /\ PriorityWeight(gaps[k].priority)
                      >= PriorityWeight(gaps[k + 1].priority)
        /\ ( /\ employee_skills = [s \in {"python"} |-> 2]
             /\ required_skills = <<Entry("python", 4), Entry("sql", 3)>> )
           => gaps = << [skill_name |-> "sql", current_level |-> 0,
                         required_level |-> 3, gap |-> 3, priority |-> "high"],
                        [skill_name |-> "python", current_level |-> 2,
                         required_level |-> 4, gap |-> 2, priority |-> "medium"] >>

\* The call of the example has returned, with the later entry first.
C3_Witness ==
    /\ pc = "done"
    /\ employee_skills = [s \in {"python"} |-> 2]
    /\ required_skills = <<Entry("python", 4), Entry("sql", 3)>>
    /\ Len(gaps) = 2
    /\ gaps[1].skill_name = "sql"

-----------------------------------------------------------------------------
(* Properties of calculate_position_match_score (SpecScore) *)

RECURSIVE SumMin(_, _)
\* The sum over the dict d of min(current level, wanted level).
SumMin(employee, d) ==
    IF d = <<>> THEN 0
    ELSE Min2(Get(employee, Head(d).skill), Head(d).level)
         + SumMin(employee, Tail(d))

RECURSIVE SumWanted(_)
\* The sum over the dict d of the wanted levels.
SumWanted(d) == IF d = <<>> THEN 0 ELSE Head(d).level + SumWanted(Tail(d))

\* C4: for employee levels in 0..5 and position levels in 1..5 the score is
\* in the closed interval [0, 1], and it is exactly 0.0 when required_skills
\* is empty, whatever preferred_skills is.
C4_ScoreRange ==
    pc = "done" =>
        /\ match_score.den > 0
        /\ 0 <= match_score.num
        /\ match_score.num <= match_score.den
        /\ required_skills = <<>> => match_score.num = 0

\* A position without required skills whose preferred skill the employee has.
C4_Witness ==
    /\ pc = "done"
    /\ required_skills = <<>>
    /\ preferred_skills # <<>>
    /\ Get(employee_skills, preferred_skills[1].skill) >= preferred_skills[1].level

\* C5: with non-empty required_skills the score is
\* base = (sum of min(current, required)) / (sum of required levels) when
\* there are no preferred skills, and
\* min(1, base + 0.2 * (sum of min(current, preferred)) / (sum of preferred
\* levels)) otherwise; hence base <= score <= min(1, base + 0.2); and
\* required = {python: 4}, preferred = {sql: 2}, employee = {python: 4,
\* sql: 2} scores 1.0.
C5_ScoreFormula ==
    (pc = "done" /\ required_skills # <<>>) =>
        LET R == SumMin(employee_skills, required_skills)
            M == SumWanted(required_skills)
            B == SumMin(employee_skills, preferred_skills)
            P == SumWanted(preferred_skills)
            n == match_score.num
            d == match_score.den
        IN  /\ preferred_skills = <<>> => n * M = R * d
            /\ preferred_skills # <<>> =>
                  \* base + 0.2 * B / P = (5 * R * P + B * M) / (5 * M * P)
                  IF 5 * R * P + B * M >= 5 * M * P
                  THEN n = d
                  ELSE n * (5 * M * P) = (5 * R * P + B * M) * d
            /\ R * d <= n * M                          \* base <= score
            /\ n <= d                                  \* score <= 1
            /\ 5 * n * M <= (5 * R + M) * d            \* score <= base + 0.2
            /\ ( /\ required_skills = <<Entry("python", 4)>>
                 /\ preferred_skills = <<Entry("sql", 2)>>
                 /\ employee_skills = [s \in {"python", "sql"} |->
                                          IF s = "python" THEN 4 ELSE 2] )
               => n = d

\* A call where the bonus counts without reaching the clamp: unmet required
\* skills and a partly met preferred skill.
C5_Witness ==
    /\ pc = "done"
    /\ Len(required_skills) = 2
    /\ preferred_skills # <<>>
    /\ SumMin(employee_skills, required_skills) < SumWanted(required_skills)
    /\ 0 < SumMin(employee_skills, preferred_skills)
    /\ SumMin(employee_skills, preferred_skills) < SumWanted(preferred_skills)
    /\ match_score.num < match_score.den

\* The position that calculate_position_match_score was given.
PositionGiven ==
    [required_skills |-> required_skills, preferred_skills |-> preferred_skills]

\* e1.get(s, 0) <= e2.get(s, 0) for every skill s.
NoLower(e1, e2) ==
    \A skill \in DOMAIN e1 \cup DOMAIN e2 : Get(e1, skill) <= Get(e2, skill)

\* C29: the match score is monotone in the employee's skills: for the
\* position and every two employee maps e1, e2 with
\* e1.get(s, 0) <= e2.get(s, 0) for every skill s, the score of e1 is no
\* greater than the score of e2.
C29_Monotone ==
    pc = "done" =>
        \A e2 \in EmployeeMaps(ScoreSkills, 0..MaxLevel) :
            /\ NoLower(employee_skills, e2) =>
                  ~ScoreLess(calculate_position_match_score(e2, PositionGiven),
                             match_score)
            /\ NoLower(e2, employee_skills) =>
                  ~ScoreLess(match_score,
                             calculate_position_match_score(e2, PositionGiven))

\* An employee one level short of the requirement scores 3/4, and one who
\* exceeds it scores more.
C29_Witness ==
    /\ pc = "done"
    /\ required_skills = <<Entry("python", 4)>>
    /\ preferred_skills = <<>>
    /\ employee_skills = [s \in {"python"} |-> 3]
    /\ match_score = [num |-> 3, den |-> 4]
    /\ ScoreLess(match_score,
                 calculate_position_match_score([s \in {"python"} |-> 5],
                                                PositionGiven))

\* C30: for every employee and every position with non-empty
\* required_skills, calculate_position_match_score returns 1.0 only if
\* calculate_skill_gap(employee.skills, position.required_skills) is empty.
C30_PerfectMeansNoGaps ==
    pc = "done" /\ required_skills # <<>> /\ ScoreEq(match_score, One) =>
        calculate_skill_gap(employee_skills, required_skills) = <<>>

\* C30, amended: the score is 1.0 only if the required skills are met to at
\* least 80 percent (the sum of min(current, required) is at least 0.8 times
\* the sum of the required levels) and, for a position without preferred
\* skills, only if calculate_skill_gap is empty; the score is 1.0 whenever
\* calculate_skill_gap is empty.
C30_PerfectMeansFourFifths ==
    pc = "done" /\ required_skills # <<>> =>
        /\ ScoreEq(match_score, One) =>
              /\ 5 * SumMin(employee_skills, required_skills)
                    >= 4 * SumWanted(required_skills)
              /\ preferred_skills = <<>> =>
                    calculate_skill_gap(employee_skills, required_skills) = <<>>
        /\ calculate_skill_gap(employee_skills, required_skills) = <<>> =>
              ScoreEq(match_score, One)

\* python 4 against a required 5 and the preferred sql met: 0.8 + 0.2 = 1.0
\* with a gap.
C30_Witness ==
    /\ pc = "done"
    /\ required_skills = <<Entry("python", 5)>>
    /\ preferred_skills = <<Entry("sql", 2)>>
    /\ Get(employee_skills, "python") = 4
    /\ Get(employee_skills, "sql") = 2
    /\ ScoreEq(match_score, One)
    /\ Len(calculate_skill_gap(employee_skills, required_skills)) = 1

-----------------------------------------------------------------------------
(* Properties of find_position_matches (SpecFind) *)

\* The positions examined, in the order of examination.
Examined == PositionsToCheck(open_positions, current_positions, include_current)

ScoreOf(position) == calculate_position_match_score(employee_skills, position)

AtLeastThreshold(score) == 10 * score.num >= 7 * score.den

Returned(position) == \E k \in DOMAIN matches : matches[k].position = position

\* C6: the returned list is sorted non-increasing by match_score.
C6_SortedByScore ==
    pc = "done" =>
        \A k \in 1..(Len(matches) - 1) :
            matches[k].match_score.num * matches[k + 1].match_score.den
              >= matches[k + 1].match_score.num * matches[k].match_score.den

\* A result of two matches with different scores, the lower one examined first.
C6_Witness ==
    /\ pc = "done"
    /\ Len(matches) = 2
    /\ ScoreLess(matches[2].match_score, matches[1].match_score)
    /\ \E i, j \in DOMAIN Examined :
          i < j /\ Examined[i] = matches[2].position
                /\ Examined[j] = matches[1].position

\* C7: at most top_n (RECOMMENDATION_COUNT) matches are returned, each of an
\* examined position with its score, which is >= the threshold
\* (SKILL_MATCH_THRESHOLD), and no examined position with score >= threshold
\* that is left out has a strictly higher score than a returned match: the
\* result is the top_n best of the kept positions.
C7_TopNOfKept ==
    pc = "done" =>
        LET kept == { i \in DOMAIN Examined : AtLeastThreshold(ScoreOf(Examined[i])) }
        IN  /\ Len(matches) <= top_n
            /\ Len(matches) = Min2(top_n, Cardinality(kept))
            /\ \A k \in DOMAIN matches :
                  /\ \E i \in kept : Examined[i] = matches[k].position
                  /\ matches[k].match_score = ScoreOf(matches[k].position)
                  /\ AtLeastThreshold(matches[k].match_score)
            /\ \A k, l \in DOMAIN matches :
                  k # l => matches[k].position # matches[l].position
            /\ \A i \in kept :
                  ~Returned(Examined[i]) =>
                      \A k \in DOMAIN matches :
                          ~ScoreLess(matches[k].match_score, ScoreOf(Examined[i]))

\* A call that examined a position below the threshold and left out a kept
\* one with a lower score than a returned one.
C7_Witness ==
    /\ pc = "done"
    /\ Len(matches) = top_n
    /\ \E i \in DOMAIN Examined : ~AtLeastThreshold(ScoreOf(Examined[i]))
    /\ \E i \in DOMAIN Examined :
          /\ AtLeastThreshold(ScoreOf(Examined[i]))
          /\ ~Returned(Examined[i])
          /\ ScoreLess(ScoreOf(Examined[i]), matches[Len(matches)].match_score)

\* The place of a position in the order of examination.
PlaceOf(position) == CHOOSE i \in DOMAIN Examined : Examined[i] = position

\* C8: two kept positions with equal match scores appear in the result in
\* the order in which they were examined (open positions in file order, then
\* current positions when include_current is set), also when the truncation
\* to top_n cuts between them.
C8_StableTies ==
    pc = "done" =>
        /\ \A k, l \in DOMAIN matches :
              (k < l /\ ScoreEq(matches[k].match_score, matches[l].match_score))
                  => PlaceOf(matches[k].position) < PlaceOf(matches[l].position)
        /\ \A k \in DOMAIN matches : \A i \in DOMAIN Examined :
              ( /\ AtLeastThreshold(ScoreOf(Examined[i]))
                /\ ~Returned(Examined[i])
                /\ ScoreEq(ScoreOf(Examined[i]), matches[k].match_score) )
                  => PlaceOf(matches[k].position) < i

\* Three examined positions with one score, an open one before a current
\* one in the result and the truncation cutting the third off.
C8_Witness ==
    /\ pc = "done"
    /\ include_current
    /\ Len(Examined) = 3
    /\ \A i \in DOMAIN Examined : ScoreEq(ScoreOf(Examined[i]), ScoreOf(Examined[1]))
    /\ AtLeastThreshold(ScoreOf(Examined[1]))
    /\ Len(matches) = 2
    /\ Examined[1].required_skills # Examined[2].required_skills

\* C9: in every returned PositionMatch, missing_skills is exactly the map of
\* the position's required skills whose key is not in employee.skills, each
\* with its required level; a skill the employee lists, at any level
\* including 0, is never in missing_skills.
C9_MissingSkills ==
    pc = "done" =>
        \A k \in DOMAIN matches :
            LET required == matches[k].position.required_skills
                missing == matches[k].missing_skills
            IN  /\ Keys(missing) = Keys(required) \ DOMAIN employee_skills
                /\ Cardinality(Keys(missing)) = Len(missing)
                /\ \A i \in DOMAIN missing :
                      \E j \in DOMAIN required : missing[i] = required[j]
                /\ \A i \in DOMAIN missing :
                      missing[i].skill \notin DOMAIN employee_skills

\* A match with a missing skill for an employee who lists another required
\* skill at level 0.
C9_Witness ==
    /\ pc = "done"
    /\ \E k \in DOMAIN matches :
          /\ matches[k].missing_skills # <<>>
          /\ \E j \in DOMAIN matches[k].position.required_skills :
                LET s == matches[k].position.required_skills[j].skill
                IN  s \in DOMAIN employee_skills /\ employee_skills[s] = 0

-----------------------------------------------------------------------------
(* Properties of _generate_position_recommendation (SpecRec) *)

\* The names of the high-priority gaps, in the order of the gap list.
HighNames ==
    LET high == SelectSeq(gaps, LAMBDA g : g.gap >= 3)
    IN  [k \in DOMAIN high |-> high[k].skill_name]

\* The names of the required skills that employee.skills does not hold.
MissingNames ==
    LET absent == SelectSeq(required_skills,
                            LAMBDA item : item.skill \notin DOMAIN employee_skills)
    IN  [k \in DOMAIN absent |-> absent[k].skill]

\* The names, each but the last followed by ", ".
Listed(names) ==
    [k \in 1..(2 * Len(names) - 1) |->
        IF k % 2 = 0 THEN ", " ELSE names[(k + 1) \div 2]]

\* C10: the recommendation is exactly one of four tier texts chosen by score
\* (>= 0.9 excellent, >= 0.8 very good, >= 0.7 good, otherwise partial),
\* followed by a clause naming the first up to 3 high-priority gap skills
\* only if at least one gap is of high priority, followed by a
\* missing-skills clause only if missing_skills is non-empty, which names
\* the skills when there are 1 or 2 and states the count when there are 3 or
\* more.
C10_Recommendation ==
    pc = "done" =>
        LET n == in_score.num
            d == in_score.den
            tier == CASE 10 * n >= 9 * d ->
                           "Excellent match! You meet most requirements."
                      [] 10 * n < 9 * d /\ 10 * n >= 8 * d ->
                           "Very good match with minor skill gaps."
                      [] 10 * n < 8 * d /\ 10 * n >= 7 * d ->
                           "Good match. Some skill development needed."
                      [] OTHER ->
                           "Partial match. Significant upskilling required."
            shown == IF Len(HighNames) <= 3 THEN HighNames
                     ELSE <<HighNames[1], HighNames[2], HighNames[3]>>
            focus == IF HighNames = <<>> THEN <<>>
                     ELSE <<" Focus on developing: ">> \o Listed(shown) \o <<".">>
            missing == IF MissingNames = <<>> THEN <<>>
                       ELSE IF Len(MissingNames) \in {1, 2}
                       THEN <<" Consider learning: ">> \o Listed(MissingNames)
                            \o <<".">>
                       ELSE <<" ", ToString(Len(MissingNames)),
                              " new skills needed for this role.">>
        IN  recommendation = <<tier>> \o focus \o missing

\* A "very good" score with four high-priority gaps, three of them named, and
\* three missing skills, counted.
C10_Witness ==
    /\ pc = "done"
    /\ 10 * in_score.num >= 8 * in_score.den
    /\ 10 * in_score.num < 9 * in_score.den
    /\ Len(HighNames) = 4
    /\ Len(MissingNames) = 3
    /\ Len(recommendation) = 11

-----------------------------------------------------------------------------
(* Properties of analyze_career_progression (SpecCareer) *)

\* The sum of gap over the skill gaps of an employee against a required map.
RECURSIVE SumOfGaps(_, _)

SumOfGaps(employee, d) ==
    IF d = <<>> THEN 0
    ELSE (IF Head(d).level > Get(employee, Head(d).skill)
          THEN Head(d).level - Get(employee, Head(d).skill) ELSE 0)
         + SumOfGaps(employee, Tail(d))

\* S of the report: the sum of gap against the required_skills of the
\* position the report is about.
ReportedS == SumOfGaps(employee_skills, report.target_position.required_skills)

TargetExists ==
    \E p \in { current_positions[i] : i \in DOMAIN current_positions }
             \cup { open_positions[i] : i \in DOMAIN open_positions } :
        p.id = target

\* C11 as stated: for every employee and existing target position the
\* reported development time is round(1.5 * S) months, S the sum of gap over
\* the skill gaps (round() of Python 3: a half goes to the even neighbour, so
\* S = 1 gives 2).
C11_RoundedMonths ==
    pc = "done" /\ TargetExists =>
        /\ report # None
        /\ \E m \in 0..(3 * ReportedS) :
              /\ report.estimated_development_time = <<ToString(m), " months">>
              /\ 2 * m - 3 * ReportedS \in {-1, 0, 1}
              /\ 2 * m # 3 * ReportedS => m % 2 = 0

\* C11, amended: for every employee and existing target position the
\* reported development time is int(1.5 * S) months, 1.5 * S with its
\* fraction dropped (S = 1 gives 1), S the sum of gap over the skill gaps.
C11_TruncatedMonths ==
    pc = "done" /\ TargetExists =>
        /\ report # None
        /\ \E m \in 0..(3 * ReportedS) :
              /\ report.estimated_development_time = <<ToString(m), " months">>
              /\ 2 * m <= 3 * ReportedS
              /\ 3 * ReportedS < 2 * m + 2

\* A report for S = 1: one gap of one level, reported as 1 month.
C11_Witness ==
    /\ pc = "done"
    /\ TargetExists
    /\ report # None
    /\ ReportedS = 1
    /\ Len(report.skill_gaps) = 1
    /\ report.estimated_development_time = <<"1", " months">>

-----------------------------------------------------------------------------
(* Properties of get_career_path_suggestions (SpecSuggest) *)

AllPositions ==
    { open_positions[i] : i \in DOMAIN open_positions }
    \cup { current_positions[i] : i \in DOMAIN current_positions }

\* The position a suggestion is about: titles are unique in these catalogs.
SuggestedPosition(k) ==
    CHOOSE p \in AllPositions : p.title = suggestions[k].position

NumberOfGaps(position) ==
    Cardinality({ i \in DOMAIN position.required_skills :
                    position.required_skills[i].level
                        > Get(employee_skills, position.required_skills[i].skill) })

\* What C12 says of every suggestion but its difficulty tag: it is about a
\* catalog position whose score is at least 0.5, it estimates
\* 2 * (number of skill gaps) months, and no later suggestion reports a
\* higher match_score.
SuggestionsWellFormed ==
    /\ \A k \in DOMAIN suggestions :
          /\ \E p \in AllPositions : p.title = suggestions[k].position
          /\ 2 * ScoreOf(SuggestedPosition(k)).num
                 >= ScoreOf(SuggestedPosition(k)).den
          /\ suggestions[k].estimated_development
                 = <<ToString(2 * NumberOfGaps(SuggestedPosition(k))), " months">>
    /\ \A k \in 1..(Len(suggestions) - 1) :
          suggestions[k].match_score.num >= suggestions[k + 1].match_score.num

\* The tag for a score of h hundredths.
TagOfHundredths(h) ==
    IF h >= 80 THEN "easy" ELSE IF h >= 60 THEN "medium" ELSE "hard"

\* C12 as stated: only positions whose match score is >= 0.5 are returned,
\* ordered non-increasing by reported match_score; each estimates
\* 2 * (number of skill gaps) months; the difficulty tag is "easy" if the
\* match_score the suggestion reports is >= 0.8, "medium" if >= 0.6, else
\* "hard".
C12_DifficultyOfReported ==
    pc = "done" =>
        /\ SuggestionsWellFormed
        /\ \A k \in DOMAIN suggestions :
              suggestions[k].difficulty
                  = TagOfHundredths(suggestions[k].match_score.num)

\* C12, amended: as stated, but the difficulty tag is "easy" if the
\* position's match score before it is rounded to two decimals is >= 0.8,
\* "medium" if it is >= 0.6, else "hard".
C12_DifficultyOfScore ==
    pc = "done" =>
        /\ SuggestionsWellFormed
        /\ \A k \in DOMAIN suggestions :
              LET score == ScoreOf(SuggestedPosition(k))
              IN  suggestions[k].difficulty
                    = IF 10 * score.num >= 8 * score.den THEN "easy"
                      ELSE IF 10 * score.num >= 6 * score.den THEN "medium"
                      ELSE "hard"

\* A suggestion that reports 0.6 for a score below 0.6 and is tagged "hard",
\* after one tagged "easy".
C12_Witness ==
    /\ pc = "done"
    /\ Len(suggestions) >= 2
    /\ suggestions[1].difficulty = "easy"
    /\ \E k \in DOMAIN suggestions :
          /\ suggestions[k].match_score.num = 60
          /\ 10 * ScoreOf(SuggestedPosition(k)).num
                 < 6 * ScoreOf(SuggestedPosition(k)).den
          /\ suggestions[k].difficulty = "hard"
          /\ suggestions[k].skill_gaps_count = 1

-----------------------------------------------------------------------------
(* Properties of _infer_skills_from_role_name (SpecInfer) *)

\* The entries of the role table whose key is a substring of the lower-cased
\* target.
TableHits ==
    { i \in DOMAIN role_skill_mapping :
        Contains(role_skill_mapping[i].role_key, Lower(target)) }

\* The entries of the flat keyword table found in the lower-cased target.
KeywordHits ==
    { i \in DOMAIN skill_keywords :
        \/ Contains(Chars(skill_keywords[i].skill), Lower(target))
        \/ Contains(ReplaceChar(Chars(skill_keywords[i].skill), "_", " "),
                    Lower(target)) }

\* The gap list is about exactly the skills of wanted (a set of
\* [skill, level]) that the employee holds below the level.
GapsAreAbout(wanted) ==
    /\ \A k \in DOMAIN gaps :
          \E w \in wanted : /\ gaps[k].skill_name = w.skill
                            /\ gaps[k].required_level = w.level
    /\ \A w \in wanted :
          Get(employee_skills, w.skill) < w.level
              => \E k \in DOMAIN gaps : gaps[k].skill_name = w.skill

\* C14: the required skills are those of the first entry of the role table
\* whose key is a substring of the lower-cased role name, each at level 3,
\* later matching entries being ignored; the flat keyword scan applies only
\* if no table entry matches; a role matching nothing yields an empty gap
\* list.
C14_FirstTableEntry ==
    pc = "done" =>
        /\ TableHits # {} =>
              \E i \in TableHits :
                  /\ \A j \in TableHits : i <= j
                  /\ GapsAreAbout({ Entry(role_skill_mapping[i].skills[k], 3) :
                                      k \in DOMAIN role_skill_mapping[i].skills })
        /\ TableHits = {} =>
              GapsAreAbout({ skill_keywords[i] : i \in KeywordHits })
        /\ TableHits = {} /\ KeywordHits = {} => gaps = <<>>

\* A role name holding two table keys, the later key of the table first: the
\* gaps are those of 'data analyst'.
C14_Witness ==
    /\ pc = "done"
    /\ Cardinality(TableHits) = 2
    /\ \E k \in DOMAIN gaps : gaps[k].skill_name = "statistics"
    /\ \A k \in DOMAIN gaps : gaps[k].skill_name # "javascript"

\* C15: the gap list of _infer_skills_from_role_name is, in content and in
\* order, calculate_skill_gap(employee.skills, R) for the inferred
\* required-skill map R.
C15_SameAsSkillGap ==
    pc = "done" =>
        gaps = calculate_skill_gap(employee_skills, InferredRequired(target))

\* An inferred gap list with two equal gaps and two different ones.
C15_Witness ==
    /\ pc = "done"
    /\ Len(gaps) >= 3
    /\ \E i, j \in DOMAIN gaps : i < j /\ gaps[i].gap = gaps[j].gap
    /\ \E i, j \in DOMAIN gaps : gaps[i].gap > gaps[j].gap
    /\ InferredRequired(target) # <<>>

-----------------------------------------------------------------------------
(* Properties of _calculate_estimated_duration (SpecDuration) *)

DurationsGiven == [k \in DOMAIN resources |-> resources[k].duration]

\* C20: over a resource lasting "6-8 weeks" and one lasting "3 months",
\* _calculate_estimated_duration counts 6 * 10 = 60 and 3 * 40 = 120 hours,
\* 180 in all, and returns "4 months".
C20_FirstDigitGroup ==
    pc = "done" /\ DurationsGiven = <<DurationTexts.six_to_eight_weeks, DurationTexts.three_months>> =>
        /\ HoursOf(DurationTexts.six_to_eight_weeks) = 60
        /\ HoursOf(DurationTexts.three_months) = 120
        /\ estimated_duration = <<"4", " months">>

\* What the code returns on that input: 68 * 10 + 120 = 800 hours,
\* "20 months".
C20_AllDigitsJoined ==
    pc = "done" /\ DurationsGiven = <<DurationTexts.six_to_eight_weeks, DurationTexts.three_months>> =>
        /\ HoursOf(DurationTexts.six_to_eight_weeks) = 680
        /\ HoursOf(DurationTexts.three_months) = 120
        /\ estimated_duration = <<"20", " months">>

C20_Reached ==
    pc = "done" /\ DurationsGiven = <<DurationTexts.six_to_eight_weeks, DurationTexts.three_months>>

\* The sum of the per-resource hours of the resources given.
SumOfHours ==
    LET f[k \in 0..Len(resources)] ==
            IF k = 0 THEN 0 ELSE f[k - 1] + HoursOf(resources[k].duration)
    IN  f[Len(resources)]

\* C21: with total_hours the sum of the per-resource hours, the estimated
\* duration is "<total_hours> hours" when total_hours < 40,
\* "<total_hours // 10> weeks" when 40 <= total_hours < 160 and
\* "<total_hours // 40> months" when total_hours >= 160; an empty resource
\* list yields "0 hours".
C21_DurationFormat ==
    pc = "done" =>
        /\ SumOfHours < 40 =>
              estimated_duration = <<ToString(SumOfHours), " hours">>
        /\ SumOfHours >= 40 /\ SumOfHours < 160 =>
              estimated_duration = <<ToString(SumOfHours \div 10), " weeks">>
        /\ SumOfHours >= 160 =>
              estimated_duration = <<ToString(SumOfHours \div 40), " months">>
        /\ resources = <<>> => estimated_duration = <<"0", " hours">>

\* Two resources of "8 weeks" each: 160 hours, the first total reported in
\* months.
C21_Witness ==
    /\ pc = "done"
    /\ DurationsGiven = <<DurationTexts.eight_weeks, DurationTexts.eight_weeks>>
    /\ SumOfHours = 160
    /\ estimated_duration = <<"4", " months">>

\* The digits of duration_str that precede the first occurrence of word.
DigitsBefore(word, duration_str) ==
    SelectSeq(BeforeFirst(word, duration_str), IsDigit)

\* The hours that C22 gives a duration: the keywords are looked for in the
\* lower-cased text in the order hour, month, week; the first one present
\* decides the unit, and without digits before it the unit's default counts.
HoursByKeyword(duration) ==
    LET duration_str == Lower(duration)
        hour == <<"h", "o", "u", "r">>
        month == <<"m", "o", "n", "t", "h">>
        week == <<"w", "e", "e", "k">>
        Counted(word, each, default) ==
            IF DigitsBefore(word, duration_str) = <<>> THEN default
            ELSE ParseInt(DigitsBefore(word, duration_str)) * each
    IN  CASE Contains(hour, duration_str) -> Counted(hour, 1, 10)
          [] ~Contains(hour, duration_str) /\ Contains(month, duration_str) ->
                Counted(month, 40, 40)
          [] ~Contains(hour, duration_str) /\ ~Contains(month, duration_str)
             /\ Contains(week, duration_str) -> Counted(week, 10, 20)
          [] OTHER -> 10

\* C22: _calculate_estimated_duration returns on free-text durations: a
\* duration with "hour" and no digits before it counts 10 hours, else one with
\* "month" and no digits counts 40, else one with "week" and no digits counts
\* 20, and one with none of the three keywords counts 10; the keywords are
\* tested in the order hour, month, week and the first one present decides
\* the unit.
C22_FreeTextDefaults ==
    pc = "done" =>
        /\ estimated_duration # <<>>
        /\ \A k \in DOMAIN resources :
              HoursOf(resources[k].duration)
                  = HoursByKeyword(resources[k].duration)
        /\ HoursOf(DurationTexts.few_hours) = 10
        /\ HoursOf(DurationTexts.several_months) = 40
        /\ HoursOf(DurationTexts.self_paced_weeks) = 20
        /\ HoursOf(DurationTexts.variable) = 10
        /\ HoursOf(DurationTexts.ten_hours_per_week) = 10
        /\ HoursOf(DurationTexts.month_and_hours) = 12

\* "Several months" and "Self-paced weeks": 40 + 20 hours, "6 weeks".
C22_Witness ==
    /\ pc = "done"
    /\ DurationsGiven = <<DurationTexts.several_months,
                          DurationTexts.self_paced_weeks>>
    /\ estimated_duration = <<"6", " weeks">>

-----------------------------------------------------------------------------
(* Properties of generate_learning_resources (SpecGen) *)

\* C17: generate_learning_resources never returns an empty list, for every
\* gap list (the empty one included) and every max_resources, configured or
\* not, whatever the remote service answers.
C17_NeverEmpty ==
    gen_pc = "returned" => resources # <<>>

\* The call with an empty gap list has returned.
C17_EmptyGapsReturned ==
    gen_pc = "returned" /\ gaps = <<>> /\ max_resources > 0

Posts == SelectSeq(chat_log, LAMBDA e : e.kind = "post")

\* C18: within one call the endpoint is attempted at most 3 times, each
\* attempt with a timeout of 30 seconds; an attempt other than the first
\* comes straight after the wait that follows a failed attempt (timeout,
\* transport error, bad status, malformed response; an empty response ends
\* the call without another attempt); the wait after failed
\* attempt k (k = 0, 1) is 2^k seconds; no wait follows the last attempt.
C18_Retries ==
    /\ Len(Posts) <= 3
    /\ \A i \in DOMAIN chat_log :
          LET e == chat_log[i]
          IN  /\ e.kind = "post" =>
                    /\ e.timeout = 30
                    /\ e.attempt \in {0, 1, 2}
                    /\ e.attempt = 0 <=> i = 1
                    /\ i > 1 =>
                          /\ chat_log[i - 1].kind = "sleep"
                          /\ chat_log[i - 1].attempt = e.attempt - 1
              /\ e.kind = "sleep" =>
                    /\ i > 1
                    /\ chat_log[i - 1].kind = "post"
                    /\ chat_log[i - 1].attempt = e.attempt
                    /\ chat_log[i - 1].outcome
                          \in {"timeout", "transport_error", "bad_status",
                               "malformed"}
                    /\ e.attempt \in {0, 1}
                    /\ e.attempt = 0 => e.seconds = 1
                    /\ e.attempt = 1 => e.seconds = 2
    /\ gen_pc \in {"answered", "returned"} /\ chat_log # <<>> =>
          chat_log[Len(chat_log)].kind = "post"

\* Three failed attempts, the waits of 1 and 2 seconds between them, and the
\* call returned.
C18_Witness ==
    /\ gen_pc = "returned"
    /\ Len(chat_log) = 5
    /\ chat_log[2].seconds = 1
    /\ chat_log[4].seconds = 2
    /\ chat_log[5].kind = "post"
    /\ chat_log[5].outcome = "timeout"
    /\ response = Raised

-----------------------------------------------------------------------------
(* Properties of generate_learning_plan (SpecPlan) *)

\* open_positions + current_positions
Catalog == open_positions \o current_positions

\* The skill gaps a plan must hold when hits are the places of the catalog
\* positions that match the target: those against the first such position,
\* the inferred ones when there is none.
GapsFor(hits) ==
    IF hits = {}
    THEN infer_skills_from_role_name(target, employee_skills)
    ELSE calculate_skill_gap(
             employee_skills,
             Catalog[CHOOSE i \in hits : \A j \in hits : i <= j].required_skills)

TitleHits == { i \in DOMAIN Catalog : Lower(Catalog[i].title) = Lower(target) }

\* C13 as stated: a target that matches a catalog position's title or
\* identifier case-insensitively resolves to the first such position in
\* open-then-current order, and the plan's skill_gaps are
\* calculate_skill_gap(employee.skills, position.required_skills); keyword
\* inference is used only when no position matches.
C13_IdentifierAnyCase ==
    pc = "done" =>
        plan.skill_gaps
            = GapsFor(TitleHits
                      \cup { i \in DOMAIN Catalog :
                               Lower(Catalog[i].id) = Lower(target) })

\* C13, amended: a target that matches a catalog position's title
\* case-insensitively, or its identifier exactly, resolves to the first such
\* position in open-then-current order, and the plan's skill_gaps are
\* calculate_skill_gap(employee.skills, position.required_skills); keyword
\* inference is used only when no position matches.
C13_IdentifierExact ==
    pc = "done" =>
        plan.skill_gaps
            = GapsFor(TitleHits
                      \cup { i \in DOMAIN Catalog : Catalog[i].id = target })

\* A plan for the identifier "P1" given exactly, resolved to the position
\* that has it, which stands after another position in the catalog.
C13_Witness ==
    /\ pc = "done"
    /\ target = RoleTexts.id_P1
    /\ Len(Catalog) = 2
    /\ Catalog[2].id = RoleTexts.id_P1
    /\ TitleHits = {}
    /\ Len(plan.skill_gaps) = 2
    /\ plan.skill_gaps[1].skill_name = "sql"

\* C16: the include_external argument selects the resource source: when it
\* is true generate_learning_resources is called with the gap list and
\* max_resources, and when it is false _generate_basic_resources is used and
\* generate_learning_resources is not called.
C16_ArgumentSelects ==
    pc = "done" =>
        IF include_external
        THEN /\ gen_pc = "returned"
             /\ plan.recommended_resources
                    = get_fallback_resources(plan.skill_gaps, max_resources)
        ELSE /\ gen_pc = "idle"
             /\ plan.recommended_resources
                    = generate_basic_resources(plan.skill_gaps, max_resources)

\* What the code does: USE_GPT_RESOURCE_GENERATION selects the source.
C16_SettingSelects ==
    pc = "done" =>
        IF use_gpt
        THEN /\ gen_pc = "returned"
             /\ plan.recommended_resources
                    = get_fallback_resources(plan.skill_gaps, max_resources)
        ELSE /\ gen_pc = "idle"
             /\ plan.recommended_resources
                    = generate_basic_resources(plan.skill_gaps, max_resources)

\* The outcomes of the requests posted, in order.
PostOutcomes ==
    LET posts == SelectSeq(chat_log, LAMBDA e : e.kind = "post")
    IN  [k \in DOMAIN posts |-> posts[k].outcome]

\* A remote failure: a failed attempt, an exception out of the call, an
\* empty or too short response, or a response that yields no resource.
RemoteFailure ==
    \/ \E k \in DOMAIN PostOutcomes : PostOutcomes[k] \in Failures
    \/ response = Raised
    \/ /\ response # None
       /\ response.kind = "text"
       /\ \/ response.leading + response.body = 0
          \/ response.body <= 50
          \/ parse_gpt_response(response) = <<>>

\* The call is at a step of the code that can be taken, or has returned its
\* plan: no exception has ended it.
NoExceptionOut ==
    \/ pc = "start"
    \/ pc = "resources" /\ gen_pc = "called"
    \/ pc = "resources" /\ gen_pc = "post" /\ attempt < 3
    \/ pc = "resources" /\ gen_pc = "sleep" /\ attempt < 2
    \/ pc = "resources" /\ gen_pc = "answered" /\ response # None
    \/ pc = "resources" /\ gen_pc = "returned"
    \/ pc = "done" /\ plan # None

-----------------------------------------------------------------------------
(* Properties of get_trending_skills (SpecTrend) *)

\* The open positions that list the skill in required_skills.
Requiring(skill) ==
    { i \in DOMAIN open_positions : skill \in Keys(open_positions[i].required_skills) }

\* The level that the i-th open position requires of the skill.
LevelRequired(i, skill) ==
    LET required == open_positions[i].required_skills
    IN  required[CHOOSE k \in DOMAIN required : required[k].skill = skill].level

\* The sum of the levels that the open positions require of the skill.
LevelSum(skill) ==
    LET f[k \in 0..Len(open_positions)] ==
            IF k = 0 THEN 0
            ELSE f[k - 1] + (IF k \in Requiring(skill)
                             THEN LevelRequired(k, skill) ELSE 0)
    IN  f[Len(open_positions)]

\* tenths / 10 is sum / count rounded to 1 decimal: no multiple of one tenth
\* is nearer to the quotient.
IsRoundedTenths(tenths, sum, count) ==
    /\ 2 * (10 * sum - tenths * count) <= count
    /\ 2 * (tenths * count - 10 * sum) <= count

\* C23: each entry of get_trending_skills has demand_count equal to the
\* number of positions that list the skill in required_skills, average_level
\* equal to the sum of those required levels divided by demand_count, rounded
\* to 1 decimal, and trend "high" if demand_count >= 3, "medium" if it is 2,
\* else "low"; positions requiring {python:3}, {python:3}, {python:5} give
\* python demand_count 3, average_level 3.7, trend high.
C23_TrendingEntries ==
    pc = "done" =>
        /\ \A k \in DOMAIN trending :
              LET entry == trending[k]
              IN  /\ entry.demand_count = Cardinality(Requiring(entry.skill))
                  /\ entry.demand_count > 0
                  /\ entry.average_level.den = 10
                  /\ IsRoundedTenths(entry.average_level.num,
                                     LevelSum(entry.skill), entry.demand_count)
                  /\ entry.trend = IF entry.demand_count >= 3 THEN "high"
                                   ELSE IF entry.demand_count = 2 THEN "medium"
                                   ELSE "low"
        /\ [k \in DOMAIN open_positions |-> open_positions[k].required_skills]
               = << <<Entry("python", 3)>>, <<Entry("python", 3)>>,
                    <<Entry("python", 5)>> >>
           => trending = <<[skill |-> "python", demand_count |-> 3,
                            average_level |-> [num |-> 37, den |-> 10],
                            trend |-> "high"]>>

\* Example 4 with a current position that requires python as well: the
\* current position is not counted.
C23_Witness ==
    /\ pc = "done"
    /\ [k \in DOMAIN open_positions |-> open_positions[k].required_skills]
           = << <<Entry("python", 3)>>, <<Entry("python", 3)>>,
                <<Entry("python", 5)>> >>
    /\ current_positions # <<>>
    /\ Len(trending) = 1
    /\ trending[1].demand_count = 3

\* The skills that some open position requires.
SkillsRequired ==
    UNION { Keys(open_positions[i].required_skills) : i \in DOMAIN open_positions }

\* (demand_count, average_level) of a is no greater than that of b.
PairLeq(a, b) ==
    \/ a.demand_count < b.demand_count
    \/ /\ a.demand_count = b.demand_count
       /\ ~ScoreLess(b.average_level, a.average_level)

\* The (demand_count, average_level) of a skill that some open position
\* requires.
PairOf(skill) ==
    [demand_count |-> Cardinality(Requiring(skill)),
     average_level |->
         [num |-> RoundHalfEven(10 * LevelSum(skill),
                                Cardinality(Requiring(skill))),
          den |-> 10]]

\* C24: get_trending_skills returns at most 10 entries, none of them for the
\* same skill as another and one for every skill when there are at most 10,
\* ordered non-increasing by (demand_count, average_level), and every skill
\* left out has a pair no greater than that of every returned entry.
C24_TopTen ==
    pc = "done" =>
        /\ Len(trending) <= 10
        /\ Len(trending) = Min2(10, Cardinality(SkillsRequired))
        /\ \A i, j \in DOMAIN trending :
              i # j => trending[i].skill # trending[j].skill
        /\ \A k \in DOMAIN trending : trending[k].skill \in SkillsRequired
        /\ \A i, j \in DOMAIN trending :
              i < j => PairLeq(trending[j], trending[i])
        /\ \A skill \in SkillsRequired :
              (\A k \in DOMAIN trending : trending[k].skill # skill)
              => \A k \in DOMAIN trending : PairLeq(PairOf(skill), trending[k])

\* Thirteen skills are required, ten are returned, and a skill of the first
\* position is among those left out.
C24_Witness ==
    /\ pc = "done"
    /\ Cardinality(SkillsRequired) = 13
    /\ Len(trending) = 10
    /\ trending[1].demand_count = 2
    /\ \E skill \in Keys(open_positions[1].required_skills) :
          \A k \in DOMAIN trending : trending[k].skill # skill

-----------------------------------------------------------------------------
(* Properties of get_skill_recommendations and
   generate_skill_specific_resources (SpecSkill) *)

\* C25: every SkillGap that get_skill_recommendations or
\* generate_skill_specific_resources builds for the caller's (current_level,
\* target_level) has gap = required_level - current_level > 0 and a priority
\* that follows the gap size: "high" from 3 on, "medium" for 2, "low" for 1.
C25_GapsWellFormed ==
    \A k \in DOMAIN gaps :
        /\ gaps[k].gap = gaps[k].required_level - gaps[k].current_level
        /\ gaps[k].gap > 0
        /\ gaps[k].priority = IF gaps[k].gap >= 3 THEN "high"
                              ELSE IF gaps[k].gap = 2 THEN "medium" ELSE "low"

\* What the code keeps of the rule: the gap is the difference of the two
\* levels given, and from 3 on it is tagged "high".
C25_DifferenceOnly ==
    \A k \in DOMAIN gaps :
        /\ gaps[k].current_level = arg_current_level
        /\ gaps[k].required_level = arg_target_level
        /\ gaps[k].gap = arg_target_level - arg_current_level
        /\ gaps[k].gap >= 3 => gaps[k].priority = "high"
        /\ gaps[k].priority \in {"high", "medium"}

\* get_skill_recommendations("python", 2, 3) has returned.
C25_Reached ==
    /\ pc = "done"
    /\ arg_current_level = 2
    /\ arg_target_level = 3
    /\ Len(gaps) = 1
    /\ gaps[1].priority = "medium"

-----------------------------------------------------------------------------
(* Properties of repeated calls (SpecTwice) *)

-----------------------------------------------------------------------------
(* Properties of concurrent save_employee calls (SpecSave) *)

BothReturned == \A call \in SaveCalls : saving[call].pc = "returned"

\* C28: two save_employee calls for different employee ids that run at once
\* both take effect: after both have returned True, get_employee_by_id finds
\* each of the two employees, and every employee stored before is still
\* present.
C28_BothTakeEffect ==
    BothReturned =>
        /\ \A call \in SaveCalls :
              get_employee_by_id(file, saving[call].employee.id)
                  = saving[call].employee
        /\ \A k \in DOMAIN stored :
              get_employee_by_id(file, stored[k].id) # None

\* What holds of the store in every state: a whole file holds what one of
\* the calls loaded and changed, or what was stored before.
C28_LastWriterWins ==
    file.state = "whole" =>
        \/ file.employees = stored
        \/ \E call \in SaveCalls : file.employees = saving[call].employees

\* Both calls loaded the file before either wrote, both returned, and the
\* employee of the first call is not in the file.
C28_Reached ==
    /\ BothReturned
    /\ file.state = "whole"
    /\ get_employee_by_id(file, saving[1].employee.id) = None
    /\ get_employee_by_id(file, saving[2].employee.id) # None

=============================================================================
